---- MODULE Spec2Model ----
(***************************************************************************)
(* The form parser of joker (package core): Parse and its sub-parsers,     *)
(* the scope stack of ParseContext, macro expansion and symbol resolution. *)
(* A run reads one top-level form and applies TryParse to it.  The parser  *)
(* is a family of mutually recursive operators that thread one record s    *)
(* (the ParseContext, GLOBAL_ENV, the pending panic and an event log).     *)
(***************************************************************************)
EXTENDS Integers, Sequences, FiniteSets, TLC

VARIABLES
  LINTER_MODE,   \* the package-level mode flag
  DIALECT,       \* the package-level dialect: "CLJ" or "CLJS"
  WARNINGS,      \* the linter's warning toggles
  PROBLEM_COUNT, \* the package-level count of printed problems
  form,          \* the read object handed to TryParse
  ctx,           \* the ParseContext the driver owns
  GLOBAL_ENV,    \* vars and namespaces
  expr,          \* the Expr TryParse returned (NoExpr when it returned an error)
  err,           \* the message of the error TryParse returned, "" when none
  log,           \* events recorded while parsing: one per sub-parser call of interest
  pc             \* "read": form not parsed yet; "parsed": TryParse returned;
                 \* "panicked": TryParse panicked again; "crashed": the process died

vars == <<LINTER_MODE, DIALECT, WARNINGS, PROBLEM_COUNT, form, ctx, GLOBAL_ENV, expr, err, log, pc>>

(***************************************************************************)
(* Bounds of the model.                                                    *)
(***************************************************************************)
\* macro expansions in one chain before the Go stack is taken to overflow
MaxExpand == 3

(***************************************************************************)
(* Read objects.  Every object is a record of the same shape: k is the     *)
(* variant, ns/name are a symbol's parts, items the children of a list or  *)
(* vector (of a map: key, value, key, value ...), pos the position info    *)
(* (the path of child indexes from the top-level form), id the allocation  *)
(* the object lives in: 0 for what the reader built, fresh numbers for     *)
(* what the parser allocates, and meta the metadata map, NoMeta for nil.   *)
(***************************************************************************)
NoMeta == [k |-> "nil"]

Obj(k, ns, name, items) ==
  [k |-> k, ns |-> ns, name |-> name, items |-> items, pos |-> <<>>, id |-> 0,
   meta |-> NoMeta]

Sym(name) == Obj("sym", "", name, <<>>)
QSym(ns, name) == Obj("sym", ns, name, <<>>)
Num == Obj("num", "", "1", <<>>)
\* position info absent
NoInfo == <<-1>>
\* position info of an object read from the core source file
CoreInfo == <<0>>
NIL == [Obj("nil", "", "", <<>>) EXCEPT !.pos = NoInfo]
List(items) == Obj("list", "", "", items)
Vec(items) == Obj("vec", "", "", items)
MakeString(text) == Obj("string", "", text, <<>>)
Kw(name) == Obj("keyword", "", name, <<>>)
Bool(name) == Obj("bool", "", name, <<>>)
ArrayMap(items) == Obj("map", "", "", items)
MapSet(items) == Obj("set", "", "", items)
WithMeta(obj, m) == [obj EXCEPT !.meta = m]

\* DeriveReadObject: obj with the position info of base
DeriveReadObject(base, obj) == [obj EXCEPT !.pos = base.pos]

\* Map.Get of a keyword: the value, NIL when the key is absent
MapGet(m, name) ==
  IF \E i \in DOMAIN m.items : i % 2 = 1 /\ m.items[i].k = "keyword" /\ m.items[i].name = name
  THEN m.items[1 + CHOOSE i \in DOMAIN m.items :
                       i % 2 = 1 /\ m.items[i].k = "keyword" /\ m.items[i].name = name]
  ELSE NIL

\* Map.Assoc of a keyword: the value of the key is replaced, a new key is added
\* at the end
Assoc(m, key, value) ==
  IF \E i \in DOMAIN m.items : i % 2 = 1 /\ m.items[i].k = "keyword" /\ m.items[i].name = key.name
  THEN [m EXCEPT !.items = [i \in DOMAIN m.items |->
                             IF i % 2 = 0 /\ m.items[i - 1].k = "keyword"
                                /\ m.items[i - 1].name = key.name
                             THEN value ELSE m.items[i]]]
  ELSE [m EXCEPT !.items = m.items \o <<key, value>>]

\* ToBool
ToBool(obj) == ~(obj.k = "nil" \/ (obj.k = "bool" /\ obj.name = "false"))

IsSymbol(obj) == obj.k = "sym"
IsString(obj) == obj.k = "string"
HasInfo(obj) == obj.pos # NoInfo
IsVector(obj) == obj.k = "vec"
IsSeq(obj) == obj.k = "list"

\* seq.First() / Second / Third / Fourth: NIL past the end
Nth(obj, i) == IF i <= Len(obj.items) THEN obj.items[i] ELSE NIL
First(obj) == Nth(obj, 1)
Second(obj) == Nth(obj, 2)
Third(obj) == Nth(obj, 3)
Fourth(obj) == Nth(obj, 4)
Rest(items) == IF items = <<>> THEN <<>> ELSE Tail(items)

\* two interface values are the same object
Identical(a, b) == a.k = b.k /\ a.id = b.id /\ a.pos = b.pos

\* the reader's position info: every object of a form gets its path
RECURSIVE Place(_, _)
Place(obj, p) ==
  [obj EXCEPT !.pos = p,
              !.items = [i \in DOMAIN obj.items |-> Place(obj.items[i], Append(p, i))]]

(***************************************************************************)
(* Expressions.                                                            *)
(***************************************************************************)
NoExpr == [k |-> "none"]
NewLiteralExpr(obj) == [k |-> "Literal", obj |-> obj, isSurrogate |-> FALSE, pos |-> obj.pos]
NewSurrogateExpr(obj) == [NewLiteralExpr(obj) EXCEPT !.isSurrogate = TRUE]
TypeLiteral(obj) ==
  [k |-> "Literal", obj |-> Obj("type", "", obj.name, <<>>), isSurrogate |-> FALSE, pos |-> obj.pos]

(***************************************************************************)
(* The global environment: two namespaces, the current one and core, whose *)
(* vars every namespace refers.  A var is keyed by <<namespace, name>>.    *)
(***************************************************************************)
CurrentNamespace == "user"
CoreNamespace == "joker.core"

Var(ns, name, isMacro, value) ==
  [ns |-> ns, name |-> name, isMacro |-> isMacro, Value |-> value,
   isUsed |-> FALSE, isGloballyUsed |-> FALSE, isFake |-> FALSE,
   isPrivate |-> FALSE, isDynamic |-> FALSE, hasExpr |-> FALSE, expr |-> NoExpr,
   info |-> NoInfo, taggedType |-> ""]

\* Value: "nil", "fn" (a function), "num" (a number), or what a macro does with
\* its form: "identity" returns &form itself, "first" returns its first argument,
\* "coreDo" and "bareDo" build (do arg), "bare" builds (g [1] #{1} arg),
\* "throwEvalError" and "throwExInfo" throw
InitialVars ==
  (<<"user", "g">> :> Var("user", "g", FALSE, "fn")) @@
  (<<"user", "d">> :> Var("user", "d", TRUE, "nil")) @@
  (<<"joker.core", "m">> :> Var("joker.core", "m", TRUE, "identity")) @@
  (<<"joker.core", "w">> :> Var("joker.core", "w", TRUE, "first")) @@
  (<<"joker.core", "wd">> :> Var("joker.core", "wd", TRUE, "coreDo")) @@
  (<<"joker.core", "bd">> :> Var("joker.core", "bd", TRUE, "bareDo")) @@
  (<<"joker.core", "bg">> :> Var("joker.core", "bg", TRUE, "bare")) @@
  (<<"joker.core", "te">> :> Var("joker.core", "te", TRUE, "throwEvalError")) @@
  (<<"joker.core", "tx">> :> Var("joker.core", "tx", TRUE, "throwExInfo")) @@
  (<<"joker.core", "nc">> :> Var("joker.core", "nc", TRUE, "num"))

\* knownMacros: the value of joker.core/*known-macros*, from the name of a
\* macro to the symbols it declares (NIL for a value that is no sequence)
InitialEnv ==
  [vars |-> InitialVars,
   nss |-> [n \in {"user", "joker.core"} |-> [isUsed |-> FALSE, isGloballyUsed |-> FALSE]],
   knownMacros |-> <<>>]

\* TYPES: the built-in type names
TYPES == {"Error", "String", "Int"}

\* Env.Resolve: the var a symbol names, or none
ResolveKey(e, sym) ==
  IF sym.ns = ""
  THEN IF <<CurrentNamespace, sym.name>> \in DOMAIN e.vars THEN <<CurrentNamespace, sym.name>>
       ELSE IF <<CoreNamespace, sym.name>> \in DOMAIN e.vars
            THEN <<CoreNamespace, sym.name>>
       ELSE <<>>
  ELSE IF <<sym.ns, sym.name>> \in DOMAIN e.vars THEN <<sym.ns, sym.name>> ELSE <<>>

\* Env.NamespaceFor: the namespace a symbol belongs to, "" for none
NamespaceFor(e, sym) ==
  IF sym.ns = "" THEN CurrentNamespace
  ELSE IF sym.ns \in DOMAIN e.nss THEN sym.ns ELSE ""

\* Namespace.Intern: the var of the name in the namespace, created when absent
Intern(e, ns, name) ==
  IF <<ns, name>> \in DOMAIN e.vars THEN e
  ELSE [e EXCEPT !.vars = (<<ns, name>> :> Var(ns, name, FALSE, "nil")) @@ @]

\* Namespace.InternFake
InternFake(e, ns, name) ==
  IF <<ns, name>> \in DOMAIN e.vars THEN e
  ELSE [e EXCEPT !.vars = (<<ns, name>> :> [Var(ns, name, FALSE, "nil") EXCEPT !.isFake = TRUE]) @@ @]

(***************************************************************************)
(* The scope stack.  ctx.localBindings is the chain of frames, outermost   *)
(* first; the nil chain is the empty sequence.                             *)
(***************************************************************************)
NewContext ==
  [localBindings |-> <<>>, loopBindings |-> <<>>, linterBindings |-> <<>>,
   recur |-> FALSE, noRecurAllowed |-> FALSE, isUnknownCallableScope |-> FALSE]

PushLoopBindings(c, bindings) == [c EXCEPT !.loopBindings = Append(@, bindings)]
PopLoopBindings(c) == [c EXCEPT !.loopBindings = SubSeq(@, 1, Len(@) - 1)]

\* the innermost entry; isNil when the stack is empty (the nil slice)
GetLoopBindings(c) ==
  IF Len(c.loopBindings) = 0 THEN [isNil |-> TRUE, syms |-> <<>>]
  ELSE [isNil |-> FALSE, syms |-> c.loopBindings[Len(c.loopBindings)]]

PushFrame(b) ==
  Append(b, [bindings |-> <<>>, frame |-> IF b = <<>> THEN 0 ELSE b[Len(b)].frame + 1])
PopFrame(b) == SubSeq(b, 1, Len(b) - 1)

\* Bindings.AddBinding on the innermost frame of the chain b
AddBinding(b, sym, index) ==
  [b EXCEPT ![Len(b)].bindings =
     (sym.name :> [name |-> sym.name, sym |-> sym, index |-> index,
                   frame |-> b[Len(b)].frame, isUsed |-> FALSE]) @@ @]

PushEmptyLocalFrame(c) == [c EXCEPT !.localBindings = PushFrame(@)]

RECURSIVE AddAll(_, _, _)
AddAll(b, names, i) ==
  IF i > Len(names) THEN b ELSE AddAll(AddBinding(b, names[i], i - 1), names, i + 1)

PushLocalFrame(c, names) == [c EXCEPT !.localBindings = AddAll(PushFrame(@), names, 1)]
PopLocalFrame(c) == [c EXCEPT !.localBindings = PopFrame(@)]

\* the depth (1-based position in the chain) of the innermost frame that binds
\* the name, 0 when no frame does
RECURSIVE FrameOf(_, _, _)
FrameOf(b, name, i) ==
  IF i = 0 THEN 0
  ELSE IF name \in DOMAIN b[i].bindings THEN i
  ELSE FrameOf(b, name, i - 1)

GetBinding(b, sym) == FrameOf(b, sym.name, Len(b))

\* GetLocalBinding without its test of the namespace
GetLocalBindingAnyNs(c, sym) == GetBinding(c.localBindings, sym)

GetLocalBinding(c, sym) ==
  IF sym.ns # "" THEN 0 ELSE GetBinding(c.localBindings, sym)

(***************************************************************************)
(* The record threaded through the parser, and panics.                     *)
(***************************************************************************)
Start(linter, dialect, warnings, problems, c, e) ==
  [linter |-> linter, dialect |-> dialect, warnings |-> warnings, ctx |-> c, env |-> e,
   err |-> "", kind |-> "", log |-> <<>>,
   problems |-> problems, evals |-> 0, fresh |-> 0, gensym |-> 0, expansions |-> 0]

R(e, s) == [e |-> e, s |-> s]
\* panic(v): kind is the Go type of the value v
PanicOf(s, kind, msg) == R(NoExpr, [s EXCEPT !.err = msg, !.kind = kind])
\* panic(&ParseError{obj, msg})
Panic(s, msg) == PanicOf(s, "ParseError", msg)
Failed(s) == s.err # ""
Event(s, ev) == [s EXCEPT !.log = Append(@, ev)]

\* printError
printError(s) == [s EXCEPT !.problems = @ + 1]

printParseWarning(s, pos, msg) ==
  Event(printError(s), [ev |-> "warning", pos |-> pos, msg |-> msg])

printParseError(s, pos, msg) ==
  Event(printError(s), [ev |-> "error", pos |-> pos, msg |-> msg])

\* generateSymbol: a symbol no source text contains
generateSymbol(s, prefix) ==
  [sym |-> [Obj("sym", "", prefix \o "__" \o ToString(s.gensym + 1), <<>>)
              EXCEPT !.pos = NoInfo],
   s |-> [s EXCEPT !.gensym = @ + 1]]

\* Symbol.ToString
SymString(sym) == IF sym.ns = "" THEN sym.name ELSE sym.ns \o "/" \o sym.name

(***************************************************************************)
(* The special-form names (STR) and marker symbols (SYMBOLS).              *)
(***************************************************************************)
STR ==
  [quote |-> "quote", _if |-> "if", fn_ |-> "fn", let_ |-> "let", letfn_ |-> "letfn",
   loop_ |-> "loop", recur |-> "recur", do |-> "do", throw |-> "throw", try |-> "try",
   setMacro_ |-> "set-macro__", def |-> "def", defLinter |-> "def-linter__", _var |-> "var"]

KEYWORDS ==
  [doc |-> "doc", private |-> "private", dynamic |-> "dynamic", skipUnused |-> "skip-unused",
   tag |-> "tag"]

SYMBOLS == [catch |-> "catch", finally |-> "finally", amp |-> "&"]

IsNamed(obj, name) == IsSymbol(obj) /\ obj.ns = "" /\ obj.name = name

\* strings.HasPrefix
HasPrefix(str, prefix) == Len(str) >= Len(prefix) /\ SubSeq(str, 1, Len(prefix)) = prefix

isSkipUnused(obj) == obj.meta.k # "nil" /\ ToBool(MapGet(obj.meta, KEYWORDS.skipUnused))

\* getTaggedType: the type the :tag of an object names, "" for none
getTaggedType(obj) ==
  IF obj.meta.k # "nil" /\ IsSymbol(MapGet(obj.meta, KEYWORDS.tag))
     /\ MapGet(obj.meta, KEYWORDS.tag).name \in TYPES
  THEN MapGet(obj.meta, KEYWORDS.tag).name ELSE ""

\* getTaggedTypes of a :tag that is a symbol: the one type it names
getTaggedTypes(obj) == getTaggedType(obj)

\* needsUnusedWarning that reports a binding whether it was used or not
needsUnusedWarningUsedToo(b) ==
  /\ ~HasPrefix(b.name, "_") /\ ~HasPrefix(b.name, "&form") /\ ~HasPrefix(b.name, "&env")
  /\ ~isSkipUnused(b.sym)

needsUnusedWarning(b) ==
  /\ ~b.isUsed
  /\ ~HasPrefix(b.name, "_") /\ ~HasPrefix(b.name, "&form") /\ ~HasPrefix(b.name, "&env")
  /\ ~isSkipUnused(b.sym)

\* the names a form can bind, in the order of sort.Strings
NameOrder ==
  <<"&", "&env", "&form", "Error", "_", "_x", "a", "b", "c", "d", "e", "f", "g", "h",
    "linter__1", "linter__2", "linter__3", "linter__4", "m", "u", "w", "x", "x2", "y", "y2",
    "z">>

\* the loop of parseLetLoop and addArity over the unused bindings of the
\* innermost frame, sorted by BySymbolName: one printParseWarning for each
printUnused(s, what) ==
  LET bindings == s.ctx.localBindings[Len(s.ctx.localBindings)].bindings
      unused == SelectSeq(NameOrder, LAMBDA n : IF n \in DOMAIN bindings
                                                THEN needsUnusedWarning(bindings[n])
                                                ELSE FALSE)
  IN  [s EXCEPT !.problems = @ + Len(unused),
                !.log = @ \o [i \in DOMAIN unused |->
                                [ev |-> "warning", pos |-> bindings[unused[i]].sym.pos,
                                 msg |-> what \o SymString(bindings[unused[i]].sym)]]]

\* the linter's part of Bindings.AddBinding on the innermost local frame: the
\* binding that sym is about to replace is reported when it needs it
replacedBindingWarning(s, sym, skipUnused) ==
  LET bindings == s.ctx.localBindings[Len(s.ctx.localBindings)].bindings
  IN  IF s.linter /\ ~skipUnused /\ sym.name \in DOMAIN bindings
         /\ needsUnusedWarning(bindings[sym.name])
      THEN printParseWarning(s, bindings[sym.name].sym.pos,
                             "Unused binding: " \o SymString(bindings[sym.name].sym))
      ELSE s

(***************************************************************************)
(* Symbols.                                                                *)
(***************************************************************************)
InternFakeSymbol(e, ns, sym) ==
  IF ns # "" THEN InternFake(e, ns, sym.name)
  ELSE InternFake(e, CurrentNamespace, SymString(sym))

FakeKey(ns, sym) ==
  IF ns # "" THEN <<ns, sym.name>> ELSE <<CurrentNamespace, SymString(sym)>>

\* MakeVarRefExpr that leaves the namespace as it is
MakeVarRefExprVarOnly(key, obj, s) ==
  R([k |-> "VarRef", vr |-> key, pos |-> obj.pos],
    [s EXCEPT !.env.vars[key].isUsed = TRUE,
              !.env.vars[key].isGloballyUsed = TRUE])

\* MakeVarRefExpr: the var and its namespace become used
MakeVarRefExpr(key, obj, s) ==
  R([k |-> "VarRef", vr |-> key, pos |-> obj.pos],
    [s EXCEPT !.env.vars[key].isUsed = TRUE,
              !.env.vars[key].isGloballyUsed = TRUE,
              !.env.nss[key[1]].isUsed = TRUE,
              !.env.nss[key[1]].isGloballyUsed = TRUE])

isInteropSymbol(sym) == sym.ns = "" /\ sym.name \in {".call", "New.", "a$b", "g.", "u."}

\* strings.Split(name, ".") of the names a form may hold
Split(name) ==
  CASE name = "g.u" -> <<"g", "u">>
    [] name = "u.v" -> <<"u", "v">>
    [] name = "g." -> <<"g", "">>
    [] name = "u." -> <<"u", "">>
    [] name = "New." -> <<"New", "">>
    [] name = ".call" -> <<"", "call">>
    [] name = "joker.core" -> <<"joker", "core">>
    [] OTHER -> <<name>>

\* strings.Join(parts, ".")
RECURSIVE Join(_)
Join(parts) ==
  IF Len(parts) = 1 THEN parts[1] ELSE parts[1] \o "." \o Join(Tail(parts))

\* the resolution order of parseSymbol: which rule answers for sym
\* parseSymbol with the global lookup ahead of the local one
symbolRuleGlobalFirst(c, e, sym, linter) ==
  IF ResolveKey(e, sym) # <<>> THEN "global"
  ELSE IF GetLocalBinding(c, sym) # 0 THEN "local"
  ELSE IF sym.ns = "" /\ sym.name \in TYPES THEN "type"
  ELSE IF ~linter THEN "error"
  ELSE "linter"

symbolRule(c, e, sym, linter) ==
  IF GetLocalBinding(c, sym) # 0 THEN "local"
  ELSE IF ResolveKey(e, sym) # <<>> THEN "global"
  ELSE IF sym.ns = "" /\ sym.name \in TYPES THEN "type"
  ELSE IF ~linter THEN "error"
  ELSE "linter"

RECURSIVE parseSymbol(_, _)
parseSymbol(obj, s) ==
  LET fake(symNs) ==
        IF (symNs = "" \/ symNs = CurrentNamespace) /\ isInteropSymbol(obj)
        THEN R(NewSurrogateExpr(obj), s)
        ELSE MakeVarRefExpr(FakeKey(symNs, obj), obj,
               [(IF (symNs = "" \/ symNs = CurrentNamespace)
                    /\ ~s.ctx.isUnknownCallableScope
                    /\ GetBinding(s.ctx.linterBindings, obj) = 0
                 THEN printParseError(s, obj.pos,
                                      "Unable to resolve symbol: " \o SymString(obj))
                 ELSE s)
                  EXCEPT !.env = InternFakeSymbol(@, symNs, obj)])
      \* the CLJS cases: a callable namespace, a JS interop name, a constructor
      cljs(parts, symNs) ==
        IF obj.name \in DOMAIN s.env.nss
        THEN R(NewSurrogateExpr(obj), [s EXCEPT !.env.nss[obj.name].isUsed = TRUE,
                                               !.env.nss[obj.name].isGloballyUsed = TRUE])
        ELSE IF Len(parts) > 1 /\ parts[1] # "" /\ parts[Len(parts)] # ""
        THEN parseSymbol(DeriveReadObject(obj, Sym(Join(SubSeq(parts, 1, Len(parts) - 1)))), s)
        ELSE IF /\ Len(parts) = 2 /\ parts[1] # "" /\ parts[2] = ""
                /\ ResolveKey(s.env, Sym(parts[1])) # <<>>
        THEN MakeVarRefExpr(ResolveKey(s.env, Sym(parts[1])), obj, s)
        ELSE fake(symNs)
      found(rule, b, symNs) ==
        CASE rule = "local" ->
               R([k |-> "Binding",
                  binding |-> [name |-> obj.name,
                               index |-> s.ctx.localBindings[b].bindings[obj.name].index,
                               frame |-> s.ctx.localBindings[b].bindings[obj.name].frame],
                  pos |-> obj.pos],
                 [s EXCEPT !.ctx.localBindings[b].bindings[obj.name].isUsed = TRUE])
          [] rule = "global" -> MakeVarRefExpr(ResolveKey(s.env, obj), obj, s)
          [] rule = "type" -> R(TypeLiteral(obj), s)
          [] rule = "error" -> Panic(s, "Unable to resolve symbol")
          [] OTHER ->
               IF s.dialect = "CLJS" /\ obj.ns = "" THEN cljs(Split(obj.name), symNs)
               ELSE fake(symNs)
      done(r) ==
        R(r.e, Event(r.s, [ev |-> "parseSymbol", pos |-> obj.pos, sym |-> obj,
                           localBindings |-> s.ctx.localBindings,
                           global |-> ResolveKey(s.env, obj),
                           out |-> r.e, err |-> r.s.err,
                           vars |-> r.s.env.vars, nss |-> r.s.env.nss,
                           after |-> r.s.ctx.localBindings]))
  IN  done(found(symbolRule(s.ctx, s.env, obj, s.linter), GetLocalBinding(s.ctx, obj),
                 NamespaceFor(s.env, obj)))

(***************************************************************************)
(* Macro expansion.                                                        *)
(***************************************************************************)
\* the var resolveMacro accepts as the macro of a call head, <<>> for none
macroVar(c, e, op) ==
  IF ~IsSymbol(op) THEN <<>>
  ELSE IF GetLocalBinding(c, op) # 0 THEN <<>>
  ELSE LET accepted(key) ==
             IF key = <<>> THEN <<>>
             ELSE IF ~e.vars[key].isMacro \/ e.vars[key].Value = "nil" THEN <<>>
             ELSE key
       IN  accepted(ResolveKey(e, op))

resolveMacro(obj, s) ==
  LET marked(key) ==
        IF key = <<>> THEN [vr |-> <<>>, s |-> s]
        ELSE [vr |-> key,
              s |-> [s EXCEPT !.env.vars[key].isUsed = TRUE,
                              !.env.vars[key].isGloballyUsed = TRUE,
                              !.env.nss[key[1]].isUsed = TRUE,
                              !.env.nss[key[1]].isGloballyUsed = TRUE]]
  IN  marked(macroVar(s.ctx, s.env, obj))

\* fixInfo: lists and vectors are rebuilt (allocation id), leaves are returned as
\* they are; an object without position info gets info
RECURSIVE fixInfo(_, _, _)
fixInfo(obj, info, id) ==
  IF obj.k \in {"list", "vec", "map"}
  THEN [obj EXCEPT !.items = [i \in DOMAIN obj.items |-> fixInfo(obj.items[i], info, id)],
                   !.id = id,
                   !.pos = IF obj.pos # NoInfo THEN obj.pos ELSE info]
  ELSE obj

\* an object the evaluator allocates: no position info
Bare(obj) == [obj EXCEPT !.pos = NoInfo]

\* Eval of a MacroCallExpr: what the macro's function returns for the form
EvalMacro(value, seq) ==
  CASE value = "identity" -> seq
    [] value = "first" -> Second(seq)
    [] value = "coreDo" -> Bare(List(<<[Sym("do") EXCEPT !.pos = CoreInfo], Second(seq)>>))
    [] value = "bareDo" -> Bare(List(<<Bare(Sym("do")), Second(seq)>>))
    [] value = "bare" ->
         Bare(List(<<Bare(Sym("g")), Bare(Vec(<<Bare(Num)>>)), Bare(MapSet(<<Bare(Num)>>)),
                     Second(seq)>>))
    [] OTHER -> NIL

\* the Go type of what Eval of a MacroCallExpr panics with, "" when it returns
EvalPanic(value) ==
  CASE value = "throwEvalError" -> "EvalError"
    [] value = "throwExInfo" -> "ExInfo"
    [] OTHER -> ""

\* vr.Value.(Callable) holds
IsCallable(value) == value # "num"

macroexpand1(seq, s) ==
  LET expanded(m) ==
        IF m.vr # <<>>
        THEN IF ~IsCallable(s.env.vars[m.vr].Value)
             THEN [obj |-> seq, raw |-> seq,
                   s |-> PanicOf(m.s, "runtime.Error", "interface conversion").s]
             ELSE IF EvalPanic(s.env.vars[m.vr].Value) # ""
             THEN [obj |-> seq, raw |-> seq,
                   s |-> PanicOf([m.s EXCEPT !.evals = @ + 1],
                                 EvalPanic(s.env.vars[m.vr].Value), "thrown by macro").s]
             ELSE [obj |-> fixInfo(EvalMacro(s.env.vars[m.vr].Value, seq), seq.pos, s.fresh + 1),
                   raw |-> EvalMacro(s.env.vars[m.vr].Value, seq),
                   s |-> [m.s EXCEPT !.evals = @ + 1, !.fresh = @ + 1]]
        ELSE [obj |-> seq, raw |-> seq, s |-> m.s]
      done(m, out) ==
        [obj |-> out.obj,
         s |-> Event(out.s, [ev |-> "macroexpand1", pos |-> seq.pos, op |-> First(seq),
                             localBindings |-> s.ctx.localBindings,
                             evaluated |-> m.vr # <<>>,
                             same |-> Identical(out.obj, seq),
                             raw |-> out.raw, out |-> out.obj, err |-> out.s.err,
                             envBefore |-> s.env, envAfter |-> out.s.env])]
      resolved(m) == done(m, expanded(m))
  IN  resolved(resolveMacro(First(seq), s))

(***************************************************************************)
(* The sub-parsers.  Each returns [e, s] (or [es, s] for a sequence of     *)
(* expressions); a panic is s.err # "", and every deferred call of the     *)
(* code is applied to the state on both exits.  A step that uses the       *)
(* result of a call is a local operator applied to that call.              *)
(***************************************************************************)
RECURSIVE Parse(_, _), parseList(_, _), parseForm(_, _, _), parseSeq(_, _),
          parseMap(_, _, _), parseSet(_, _, _), parseDef(_, _, _), parseSetMacro(_, _),
          parseVector(_, _), parseBodyLoop(_, _), parseBody(_, _), addArity(_, _, _, _, _),
          parseArities(_, _, _), parseFn(_, _), parseCatch(_, _), parseTryLoop(_, _, _, _),
          parseTry(_, _), parseLetLoop(_, _, _), parseBindings(_, _, _, _, _, _),
          parseValues(_, _, _), parseRecur(_, _), parseCall(_, _, _), resolveType(_, _)

ES(es, s) == [es |-> es, s |-> s]

parseSeq(items, s) ==
  IF items = <<>> THEN ES(<<>>, s)
  ELSE LET cons(r, t) == ES(<<r.e>> \o t.es, t.s)
           first(r) == IF Failed(r.s) THEN ES(<<>>, r.s)
                       ELSE cons(r, parseSeq(Tail(items), r.s))
       IN  first(Parse(Head(items), s))

parseVector(v, s) ==
  LET vector(t) == IF Failed(t.s) THEN R(NoExpr, t.s)
                   ELSE R([k |-> "Vector", v |-> t.es, pos |-> v.pos], t.s)
  IN  vector(parseSeq(v.items, s))

parseMap(m, pos, s) ==
  LET map(t) ==
        IF Failed(t.s) THEN R(NoExpr, t.s)
        ELSE R([k |-> "Map",
                keys |-> [i \in 1..(Len(t.es) \div 2) |-> t.es[2 * i - 1]],
                values |-> [i \in 1..(Len(t.es) \div 2) |-> t.es[2 * i]],
                pos |-> pos], t.s)
  IN  map(parseSeq(m.items, s))

parseSet(set, pos, s) ==
  LET elements(t) == IF Failed(t.s) THEN R(NoExpr, t.s)
                     ELSE R([k |-> "Set", elements |-> t.es, pos |-> pos], t.s)
  IN  elements(parseSeq(set.items, s))

\* checkForm: "" when the element count is within [min, max]
checkForm(obj, min, max) ==
  IF Len(obj.items) < min THEN "Too few arguments to " \o SymString(First(obj))
  ELSE IF Len(obj.items) > max THEN "Too many arguments to " \o SymString(First(obj))
  ELSE ""

\* the tail-position test of parseBody, after one expression was parsed
recurNotInTail(recur, rest, linter) == recur /\ rest # <<>> /\ ~linter

\* the dereference of an object's position info when it has none
NilDereference == "invalid memory address or nil pointer dereference"

\* isCreatedByMacro, for a form whose head has position info
isCreatedByMacro(formSeq) == First(formSeq).pos = CoreInfo

skipRedundantDo(obj) ==
  /\ obj.k \in {"list", "vec", "map", "set", "sym"}
  /\ obj.meta.k # "nil"
  /\ MapGet(obj.meta, "skip-redundant-do").k = "bool"
  /\ MapGet(obj.meta, "skip-redundant-do").name = "true"

\* the linter's checks of parseBody on the expression parsed from ro
bodyWarning(ro, e, s) ==
  IF ~s.linter THEN s
  ELSE IF e.k = "Def" /\ ~e.isCreatedByMacro THEN printParseWarning(s, e.pos, "inline def")
  ELSE IF e.k = "Do" /\ ~e.isCreatedByMacro /\ ~skipRedundantDo(ro)
  THEN printParseWarning(s, e.pos, "redundant do form")
  ELSE s

parseBodyLoop(items, s) ==
  IF items = <<>> THEN ES(<<>>, s)
  ELSE LET cons(r, t) == ES(<<r.e>> \o t.es, t.s)
           first(r) ==
             IF Failed(r.s) THEN ES(<<>>, r.s)
             ELSE IF recurNotInTail(r.s.ctx.recur, Tail(items), r.s.linter)
             THEN ES(<<>>, Panic(r.s, "Can only recur from tail position").s)
             ELSE cons(r, parseBodyLoop(Tail(items), bodyWarning(Head(items), r.e, r.s)))
       IN  first(Parse(Head(items), s))

parseBody(items, s) ==
  LET deferred(t) == ES(t.es, [t.s EXCEPT !.ctx.recur = s.ctx.recur])
  IN  deferred(parseBodyLoop(items, [s EXCEPT !.ctx.recur = FALSE]))

(***************************************************************************)
(* fn                                                                      *)
(***************************************************************************)
RECURSIVE parseParamsLoop(_, _, _, _)
parseParamsLoop(v, i, res, s) ==
  IF i > Len(v) THEN [args |-> res, isVariadic |-> FALSE, s |-> s]
  ELSE IF ~IsSymbol(v[i]) /\ ~s.linter
  THEN [args |-> <<>>, isVariadic |-> FALSE, s |-> Panic(s, "Unsupported binding form").s]
  ELSE LET rest(g, h) == [args |-> Append(res, h.sym), isVariadic |-> TRUE, s |-> h.s]
           param(g) ==
             IF IsNamed(g.sym, SYMBOLS.amp)
             THEN IF Len(v) > i + 1
                  THEN [args |-> <<>>, isVariadic |-> FALSE,
                        s |-> Panic(g.s, "Unexpected parameter").s]
                  ELSE IF Len(v) = i + 1
                  THEN IF ~IsSymbol(v[i + 1]) /\ ~s.linter
                       THEN [args |-> <<>>, isVariadic |-> FALSE,
                             s |-> Panic(g.s, "Unsupported binding form").s]
                       ELSE rest(g, IF IsSymbol(v[i + 1]) THEN [sym |-> v[i + 1], s |-> g.s]
                                    ELSE generateSymbol(g.s, "linter"))
                  ELSE [args |-> res, isVariadic |-> FALSE, s |-> g.s]
             ELSE parseParamsLoop(v, i + 1, Append(res, g.sym), g.s)
       IN  param(IF IsSymbol(v[i]) THEN [sym |-> v[i], s |-> s] ELSE generateSymbol(s, "linter"))

parseParams(params, s) == parseParamsLoop(params.items, 1, <<>>, s)

\* the overload checks of addArity without the test of a fixed arity against
\* the variadic one already there
arityErrorOneWay(fn, args, isVariadic) ==
  IF isVariadic
  THEN IF fn.variadic # NoExpr THEN "Can't have more than 1 variadic overload"
       ELSE IF \E i \in DOMAIN fn.arities : Len(fn.arities[i].args) >= Len(args)
       THEN "Can't have fixed arity function with more params than variadic function"
       ELSE ""
  ELSE IF \E i \in DOMAIN fn.arities : Len(fn.arities[i].args) = Len(args)
       THEN "Can't have 2 overloads with same arity"
       ELSE ""

\* the overload checks of addArity: "" when the arity may join fn
arityError(fn, args, isVariadic) ==
  IF isVariadic
  THEN IF fn.variadic # NoExpr THEN "Can't have more than 1 variadic overload"
       ELSE IF \E i \in DOMAIN fn.arities : Len(fn.arities[i].args) >= Len(args)
       THEN "Can't have fixed arity function with more params than variadic function"
       ELSE ""
  ELSE IF \E i \in DOMAIN fn.arities : Len(fn.arities[i].args) = Len(args)
       THEN "Can't have 2 overloads with same arity"
       ELSE IF fn.variadic # NoExpr /\ Len(args) >= Len(fn.variadic.args)
       THEN "Can't have fixed arity function with more params than variadic function"
       ELSE ""

\* what addArity sets up before it parses the body
enterArity(c, args) ==
  [PushLoopBindings(PushLocalFrame(c, args), args) EXCEPT !.noRecurAllowed = FALSE]

\* addArity without its deferred PopLocalFrame
leaveArityKeepFrame(c, noRecurAllowed) ==
  PopLoopBindings([c EXCEPT !.noRecurAllowed = noRecurAllowed])

\* the deferred calls of addArity
leaveArity(c, noRecurAllowed) ==
  PopLocalFrame(PopLoopBindings([c EXCEPT !.noRecurAllowed = noRecurAllowed]))

addArity(fn, params, body, sigPos, s) ==
  LET arity(p, b) == [k |-> "FnArity", args |-> p.args, body |-> b.es, pos |-> params.pos]
      unused(s2) ==
        IF s2.warnings.unusedFnParameters THEN printUnused(s2, "unused parameter: ") ELSE s2
      linted(b) ==
        IF ~b.s.linter THEN b.s
        ELSE unused(IF b.s.warnings.fnWithEmptyBody /\ Len(b.es) = 0
                    THEN printParseWarning(b.s, sigPos, "fn form with empty body")
                    ELSE b.s)
      checked(p, b, e) ==
        IF Failed(b.s) THEN [fn |-> fn, s |-> b.s]
        ELSE IF e # "" THEN [fn |-> fn, s |-> Panic(b.s, e).s]
        ELSE IF p.isVariadic THEN [fn |-> [fn EXCEPT !.variadic = arity(p, b)], s |-> linted(b)]
        ELSE [fn |-> [fn EXCEPT !.arities = Append(@, arity(p, b))], s |-> linted(b)]
      deferred(p, a) ==
        [fn |-> a.fn, s |-> [a.s EXCEPT !.ctx = leaveArity(@, p.s.ctx.noRecurAllowed)]]
      entered(p, c) ==
        Event([p.s EXCEPT !.ctx = c],
              [ev |-> "addArity", pos |-> params.pos, args |-> p.args,
               frame |-> c.localBindings[Len(c.localBindings)]])
      parsed(p) ==
        IF Failed(p.s) THEN [fn |-> fn, s |-> p.s]
        ELSE deferred(p, checked(p, parseBody(body, entered(p, enterArity(p.s.ctx, p.args))),
                                 arityError(fn, p.args, p.isVariadic)))
  IN  parsed(parseParams(params, s))

parseArities(fn, bodies, s) ==
  IF bodies = <<>> THEN [fn |-> fn, s |-> s]
  ELSE IF ~IsSeq(Head(bodies))
  THEN [fn |-> fn, s |-> Panic(s, "Function body must be a list").s]
  ELSE IF ~IsVector(First(Head(bodies)))
  THEN [fn |-> fn, s |-> Panic(s, "Parameter declaration must be a vector").s]
  ELSE LET added(a) == IF Failed(a.s) THEN a ELSE parseArities(a.fn, Tail(bodies), a.s)
       IN  added(addArity(fn, First(Head(bodies)), Rest(Head(bodies).items),
                          Head(bodies).pos, s))

parseFn(obj, s) ==
  LET done(r, out) ==
        R(out, Event(r.s, [ev |-> "parseFn", pos |-> obj.pos, out |-> out, err |-> r.s.err]))
      deferred(hasSelf, r) ==
        IF hasSelf THEN [fn |-> r.fn, s |-> [r.s EXCEPT !.ctx = PopLocalFrame(@)]] ELSE r
      arities(res, p, bodies, s1) ==
        IF IsVector(p) THEN addArity(res, p, Rest(bodies), NoInfo, s1)
        ELSE IF bodies = <<>>
        THEN [fn |-> res, s |-> Panic(s1, "Parameter declaration missing").s]
        ELSE parseArities(res, bodies, s1)
      result(r) == done(r, IF Failed(r.s) THEN NoExpr ELSE r.fn)
      named(hasSelf, p0, bodies) ==
        result(deferred(hasSelf,
                 arities([k |-> "Fn", arities |-> <<>>, variadic |-> NoExpr,
                          self |-> IF hasSelf THEN p0.name ELSE "", pos |-> obj.pos],
                         IF bodies = <<>> THEN NIL ELSE Head(bodies),
                         bodies,
                         IF hasSelf THEN [s EXCEPT !.ctx = PushLocalFrame(@, <<p0>>)] ELSE s)))
      first(bodies, p0) == named(IsSymbol(p0), p0, IF IsSymbol(p0) THEN Rest(bodies) ELSE bodies)
      rest(bodies) == first(bodies, IF bodies = <<>> THEN NIL ELSE Head(bodies))
  IN  rest(Rest(obj.items))

(***************************************************************************)
(* try / catch / finally                                                   *)
(***************************************************************************)
isCatch(obj) == IsSeq(obj) /\ IsNamed(First(obj), SYMBOLS.catch)
isFinally(obj) == IsSeq(obj) /\ IsNamed(First(obj), SYMBOLS.finally)

\* the kind parseTry gives a child of the try form
childType(obj) ==
  IF isCatch(obj) THEN "Catch" ELSE IF isFinally(obj) THEN "Finally" ELSE "Regular"

\* the ordering checks of parseTry without the test that finally is last
tryOrderErrorNoFinally(lastType, type) ==
  IF type = "Regular" /\ lastType = "Catch"
  THEN "Only catch or finally clause can follow catch in try expression"
  ELSE ""

\* the ordering checks of parseTry for a child of kind type that follows a
\* child of kind lastType: "" when the child is accepted
tryOrderError(lastType, type) ==
  IF lastType = "Finally" THEN "finally clause must be last in try expression"
  ELSE IF type = "Regular" /\ lastType = "Catch"
  THEN "Only catch or finally clause can follow catch in try expression"
  ELSE ""

resolveType(obj, s) ==
  LET typed(r) ==
        IF Failed(r.s) THEN [type |-> "", s |-> r.s]
        ELSE IF r.e.k = "Literal" /\ r.e.obj.k = "type" THEN [type |-> r.e.obj.name, s |-> r.s]
        ELSE IF r.s.linter THEN [type |-> "Error", s |-> r.s]
        ELSE [type |-> "", s |-> Panic(r.s, "Unable to resolve type").s]
  IN  typed(Parse(obj, s))

parseCatch(obj, s) ==
  LET catch(seq, t, b, s1) ==
        IF Failed(s1) THEN R(NoExpr, s1)
        ELSE R([k |-> "Catch", excType |-> t.type, excSymbol |-> seq[2].name,
                body |-> b.es, pos |-> obj.pos], s1)
      deferred(seq, t, b) == catch(seq, t, b, [b.s EXCEPT !.ctx = PopLocalFrame(@)])
      typed(seq, t) ==
        IF Failed(t.s) THEN R(NoExpr, t.s)
        ELSE IF ~IsSymbol(seq[2])
        THEN Panic(t.s, "Bad binding form, expected symbol")
        ELSE deferred(seq, t, parseBody(Rest(Rest(seq)),
                                        [t.s EXCEPT !.ctx = PushLocalFrame(@, <<seq[2]>>)]))
      clause(seq) ==
        IF seq = <<>> \/ Rest(seq) = <<>>
        THEN Panic(s, "catch requires at least two arguments: type symbol and binding symbol")
        ELSE typed(seq, resolveType(seq[1], s))
  IN  clause(Rest(obj.items))

parseFinally(body, s) == parseBody(body, s)

\* parseTry without the noRecurAllowed flag
enterTryAllowRecur(c) == c

\* what parseTry changes in the context before it parses its children
enterTry(c) == [c EXCEPT !.noRecurAllowed = TRUE]

parseTryLoop(seq, lastType, res, s) ==
  IF seq = <<>> THEN R(res, s)
  ELSE LET caught(c) ==
             IF Failed(c.s) THEN R(NoExpr, c.s)
             ELSE parseTryLoop(Tail(seq), "Catch", [res EXCEPT !.catches = Append(@, c.e)], c.s)
           finished(f) ==
             IF Failed(f.s) THEN R(NoExpr, f.s)
             ELSE parseTryLoop(Tail(seq), "Finally",
                               [res EXCEPT !.finallyExpr = f.es, !.hasFinally = TRUE], f.s)
           regular(r) ==
             IF Failed(r.s) THEN R(NoExpr, r.s)
             ELSE parseTryLoop(Tail(seq), lastType, [res EXCEPT !.body = Append(@, r.e)], r.s)
           child(obj, type, e) ==
             IF e # "" THEN Panic(s, e)
             ELSE IF type = "Catch" THEN caught(parseCatch(obj, s))
             ELSE IF type = "Finally" THEN finished(parseFinally(Rest(obj.items), s))
             ELSE regular(Parse(obj, s))
       IN  child(Head(seq), childType(Head(seq)), tryOrderError(lastType, childType(Head(seq))))

parseTry(obj, s) ==
  LET done(r, out) ==
        R(out, Event(r.s, [ev |-> "parseTry", pos |-> obj.pos, out |-> out, err |-> r.s.err]))
      result(r) == done(r, IF Failed(r.s) THEN NoExpr ELSE r.e)
      deferred(r) == R(r.e, [r.s EXCEPT !.ctx.noRecurAllowed = s.ctx.noRecurAllowed])
  IN  result(deferred(parseTryLoop(Rest(obj.items), "Regular",
                                   [k |-> "Try", body |-> <<>>, catches |-> <<>>,
                                    finallyExpr |-> <<>>, hasFinally |-> FALSE, pos |-> obj.pos],
                                   [s EXCEPT !.ctx = enterTry(@)])))

(***************************************************************************)
(* let / loop / letfn                                                      *)
(***************************************************************************)
\* no form defers its values
valuesAfterNamesNever(formName) == FALSE

\* the test of parseLetLoop that leaves the values of a form to the second
\* loop, after every name is bound
valuesAfterNames(formName) == formName = "letfn"

\* the first loop of parseLetLoop over the binding vector b, from pair i (0-based)
parseBindings(b, i, formName, res, skipUnused, s) ==
  IF i >= Len(b) \div 2 THEN [names |-> res.names, values |-> res.values, s |-> s]
  ELSE LET valued(n, v) ==
             IF Failed(v.s) THEN [names |-> <<>>, values |-> <<>>, s |-> v.s]
             ELSE parseBindings(b, i + 1, formName,
                    [names |-> Append(res.names, n.sym), values |-> Append(res.values, v.e)],
                    skipUnused,
                    [replacedBindingWarning(v.s, n.sym, skipUnused)
                       EXCEPT !.ctx.localBindings = AddBinding(@, n.sym, i)])
           named(n) ==
             valued(n, IF ~valuesAfterNames(formName) THEN Parse(b[i * 2 + 2], n.s)
                       ELSE R(NoExpr, n.s))
           name(sym) ==
             IF (IF IsSymbol(sym) THEN sym.ns # "" ELSE TRUE) /\ ~s.linter
             THEN [names |-> <<>>, values |-> <<>>,
                   s |-> Panic(s, IF IsSymbol(sym)
                                  THEN "Can't let qualified name: " \o SymString(sym)
                                  ELSE "Unsupported binding form").s]
             ELSE named(IF IsSymbol(sym)
                        THEN [sym |-> sym,
                              s |-> IF sym.ns # ""
                                    THEN printParseError(s, sym.pos, "Can't let qualified name: "
                                                                       \o SymString(sym))
                                    ELSE s]
                        ELSE generateSymbol(s, "linter"))
       IN  name(b[i * 2 + 1])

\* the second loop of parseLetLoop (letfn): every value, all names in scope
parseValues(b, i, s) ==
  IF i >= Len(b) \div 2 THEN ES(<<>>, s)
  ELSE LET cons(v, t) == ES(<<v.e>> \o t.es, t.s)
           value(v) == IF Failed(v.s) THEN ES(<<>>, v.s)
                       ELSE cons(v, parseValues(b, i + 1, v.s))
       IN  value(Parse(b[i * 2 + 2], s))

\* what parseLetLoop sets up for the body of a loop
enterLoop(c, names) == [PushLoopBindings(c, names) EXCEPT !.noRecurAllowed = FALSE]

\* the deferred calls a loop registers
leaveLoop(c, noRecurAllowed) == PopLoopBindings([c EXCEPT !.noRecurAllowed = noRecurAllowed])

\* the checks of parseLetLoop without the test of the length of the vector
bindingsErrorVectorOnly(bindings, formName) ==
  IF ~IsVector(bindings) THEN formName \o " requires a vector for its bindings"
  ELSE ""

\* the checks of parseLetLoop on the second element of the form, made before
\* anything is pushed: "" when it is accepted
bindingsError(bindings, formName) ==
  IF ~IsVector(bindings) THEN formName \o " requires a vector for its bindings"
  ELSE IF Len(bindings.items) % 2 # 0
  THEN formName \o " requires an even number of forms in binding vector"
  ELSE ""

\* what a sub-parser can change, for the events that compare entry and exit
Effects(s) ==
  [ctx |-> s.ctx, env |-> s.env, problems |-> s.problems, gensym |-> s.gensym,
   events |-> Len(s.log)]

parseLetLoop(obj, formName, s) ==
  LET done(r) ==
        R(r.e, Event(r.s, [ev |-> "parseLetLoop", pos |-> obj.pos, formName |-> formName,
                           obj |-> obj, entry |-> Effects(s), exit |-> Effects(r.s),
                           out |-> r.e, err |-> r.s.err]))
      result(pb, pv, body, s2) ==
        IF Failed(s2) THEN R(NoExpr, s2)
        ELSE R([k |-> IF formName = "let" THEN "Let" ELSE "Loop",
                names |-> [i \in DOMAIN pb.names |-> pb.names[i].name],
                values |-> pv.es, body |-> body.es, pos |-> obj.pos], s2)
      deferred(pb, pv, isLoop, body) ==
        result(pb, pv, body,
               [body.s EXCEPT !.ctx = PopLocalFrame(IF isLoop
                                                    THEN leaveLoop(@, pv.s.ctx.noRecurAllowed)
                                                    ELSE @)])
      unused(s2) ==
        IF isSkipUnused(Second(obj)) THEN s2 ELSE printUnused(s2, "unused binding: ")
      linted(body) ==
        IF Failed(body.s) \/ ~body.s.linter THEN body
        ELSE ES(body.es, unused(IF Len(body.es) = 0
                                THEN printParseWarning(body.s, obj.pos,
                                                       formName \o " form with empty body")
                                ELSE body.s))
      looped(pb, pv, isLoop) ==
        deferred(pb, pv, isLoop,
                 IF Failed(pv.s) THEN ES(<<>>, pv.s)
                 ELSE linted(parseBody(Rest(Rest(obj.items)),
                                       IF isLoop THEN [pv.s EXCEPT !.ctx = enterLoop(@, pb.names)]
                                       ELSE pv.s)))
      valued(pb, pv) == looped(pb, pv, formName = "loop" /\ ~Failed(pv.s))
      bound(bindings, pb) ==
        valued(pb, IF Failed(pb.s) THEN ES(<<>>, pb.s)
                   ELSE IF valuesAfterNames(formName) THEN parseValues(bindings.items, 0, pb.s)
                   ELSE ES(pb.values, pb.s))
      emptyBindingsWarning(bindings) ==
        IF s.linter /\ formName # "loop" /\ Len(bindings.items) = 0
        THEN printParseWarning(s, obj.pos, formName \o " form with empty bindings vector")
        ELSE s
      vector(bindings) ==
        IF bindingsError(bindings, formName) # ""
        THEN Panic(s, bindingsError(bindings, formName))
        ELSE bound(bindings, parseBindings(bindings.items, 0, formName,
                                           [names |-> <<>>, values |-> <<>>],
                                           isSkipUnused(bindings),
                                           [emptyBindingsWarning(bindings)
                                              EXCEPT !.ctx = PushEmptyLocalFrame(@)]))
  IN  done(vector(Second(obj)))

(***************************************************************************)
(* recur                                                                   *)
(***************************************************************************)
\* the checks parseRecur makes before it parses the arguments
recurGuard(c) ==
  IF c.noRecurAllowed THEN "Cannot recur across try"
  ELSE IF GetLoopBindings(c).isNil THEN "No recursion point for recur"
  ELSE ""

\* the argument count test of parseRecur, missing too few arguments
recurMismatchTooMany(loopBindings, args) == Len(loopBindings) < Len(args)

\* the argument count test of parseRecur
recurMismatch(loopBindings, args) == Len(loopBindings) # Len(args)

parseRecur(obj, s) ==
  LET done(r) ==
        R(r.e, Event(r.s, [ev |-> "parseRecur", pos |-> obj.pos,
                           loopBindings |-> s.ctx.loopBindings,
                           noRecurAllowed |-> s.ctx.noRecurAllowed,
                           out |-> r.e, err |-> r.s.err]))
      counted(args) ==
        IF Failed(args.s) THEN R(NoExpr, args.s)
        ELSE IF recurMismatch(GetLoopBindings(s.ctx).syms, args.es)
        THEN Panic(args.s, "Mismatched argument count to recur")
        ELSE R([k |-> "Recur", args |-> args.es, pos |-> obj.pos],
               [args.s EXCEPT !.ctx.recur = TRUE])
      guarded(g) == IF g # "" THEN Panic(s, g) ELSE counted(parseSeq(Rest(obj.items), s))
  IN  done(guarded(recurGuard(s.ctx)))

(***************************************************************************)
(* def, set-macro__, var                                                   *)
(***************************************************************************)
\* parseDef with no test of the namespace of the name
defOutsideCurrentNsNever(sym) == FALSE

\* the test of parseDef on a qualified name: Symbol{name: sym.ns} differs from
\* the name of the current namespace
defOutsideCurrentNs(sym) == sym.ns # "" /\ sym.ns # CurrentNamespace

updateVar(e, key, info, valueExpr, sym) ==
  [e EXCEPT !.vars[key].info = info,
            !.vars[key].taggedType = IF sym.meta.k # "nil" THEN getTaggedType(sym) ELSE @,
            !.vars[key].hasExpr = valueExpr # NoExpr,
            !.vars[key].expr = valueExpr,
            !.vars[key].isPrivate =
               IF sym.meta.k # "nil" /\ MapGet(sym.meta, KEYWORDS.private).k # "nil"
               THEN ToBool(MapGet(sym.meta, KEYWORDS.private)) ELSE @,
            !.vars[key].isDynamic =
               IF sym.meta.k # "nil" /\ MapGet(sym.meta, KEYWORDS.dynamic).k # "nil"
               THEN ToBool(MapGet(sym.meta, KEYWORDS.dynamic)) ELSE @]

\* the metadata of a def with a docstring
docMeta(meta, docstring) ==
  Assoc(IF meta.k # "nil" THEN meta ELSE ArrayMap(<<>>), Kw(KEYWORDS.doc), docstring)

\* parseDef that interns no Var
internDefNothing(e, name, isForLinter) == e

\* the Var parseDef interns for the name without its namespace, globally used
\* when the def is one the linter makes
internDef(e, name, isForLinter) ==
  [Intern(e, CurrentNamespace, name)
     EXCEPT !.vars[<<CurrentNamespace, name>>].isGloballyUsed = IF isForLinter THEN TRUE ELSE @]

parseDef(obj, s, isForLinter) ==
  LET key == <<CurrentNamespace, Second(obj).name>>
      done(r) ==
        R(r.e, Event(r.s, [ev |-> "parseDef", pos |-> obj.pos, obj |-> obj,
                           varsBefore |-> DOMAIN s.env.vars, varsAfter |-> DOMAIN r.s.env.vars,
                           before |-> s.env.vars, after |-> r.s.env.vars,
                           out |-> r.e, err |-> r.s.err]))
      withMeta(res, m) ==
        IF Failed(m.s) THEN R(NoExpr, m.s) ELSE R([res EXCEPT !.meta = m.e], m.s)
      updated(res, meta, s2) ==
        IF meta.k = "nil" THEN R(res, s2)
        ELSE withMeta(res, Parse(DeriveReadObject(obj, meta), s2))
      valued(res, v, meta) ==
        IF Failed(v.s) THEN R(NoExpr, v.s)
        ELSE updated([res EXCEPT !.value = v.e], meta,
                     [v.s EXCEPT !.env = updateVar(@, key, obj.pos, v.e, Second(obj))])
      documented(res, v) ==
        IF Failed(v.s) THEN R(NoExpr, v.s)
        ELSE IF ~IsString(Third(obj)) THEN Panic(v.s, "Docstring must be a string")
        ELSE valued(res, v, docMeta(Second(obj).meta, Third(obj)))
      interned(res, s1) ==
        IF Len(obj.items) = 3 THEN valued(res, Parse(Third(obj), s1), Second(obj).meta)
        ELSE IF Len(obj.items) = 4 THEN documented(res, Parse(Fourth(obj), s1))
        ELSE valued(res, R(NoExpr, s1), Second(obj).meta)
      symbol(s1) ==
        IF ~HasInfo(First(obj)) THEN PanicOf(s1, "runtime.Error", NilDereference)
        ELSE interned([k |-> "Def", vr |-> key, name |-> Second(obj), value |-> NoExpr,
                       meta |-> NoExpr, isCreatedByMacro |-> isCreatedByMacro(obj),
                       pos |-> obj.pos], s1)
      checked(e) ==
        IF e # "" THEN Panic(s, e)
        ELSE IF ~IsSymbol(Second(obj)) THEN Panic(s, "First argument to def must be a Symbol")
        ELSE IF defOutsideCurrentNs(Second(obj))
        THEN Panic(s, "Can't create defs outside of current ns")
        ELSE symbol([s EXCEPT !.env = internDef(@, Second(obj).name, isForLinter)])
  IN  done(checked(checkForm(obj, 2, 4)))

\* the object a LiteralExpr holds for a var
VarObject(key) == Obj("var", key[1], key[2], <<>>)

\* Eval of a SetMacroExpr
EvalSetMacro(e, key) == [e EXCEPT !.vars[key].isMacro = TRUE]

parseSetMacro(obj, s) ==
  LET set(r) ==
        IF Failed(r.s) THEN R(NoExpr, r.s)
        ELSE IF r.e.k = "Literal" /\ r.e.obj.k = "var"
        THEN R([k |-> "SetMacro", vr |-> <<r.e.obj.ns, r.e.obj.name>>],
               [r.s EXCEPT !.env = EvalSetMacro(@, <<r.e.obj.ns, r.e.obj.name>>)])
        ELSE Panic(r.s, "set-macro__ argument must be a var")
  IN  set(Parse(Second(obj), s))

\* the var case of parseList
parseVar(obj, s) ==
  LET sym == Second(obj)
      literal(key, s1) ==
        R([k |-> "Literal", obj |-> VarObject(key), isSurrogate |-> FALSE, pos |-> obj.pos],
          [s1 EXCEPT !.env.vars[key].isUsed = TRUE,
                     !.env.vars[key].isGloballyUsed = TRUE,
                     !.env.nss[key[1]].isUsed = TRUE,
                     !.env.nss[key[1]].isGloballyUsed = TRUE])
      fake(symNs) ==
        literal(FakeKey(symNs, sym),
                [(IF ~s.ctx.isUnknownCallableScope /\ (symNs = "" \/ symNs = CurrentNamespace)
                  THEN printParseError(s, obj.pos, "Unable to resolve symbol: " \o SymString(sym))
                  ELSE s)
                   EXCEPT !.env = InternFakeSymbol(@, symNs, sym)])
  IN  IF checkForm(obj, 2, 2) # "" THEN Panic(s, checkForm(obj, 2, 2))
      ELSE IF ~IsSymbol(sym) THEN Panic(s, "var's argument must be a symbol")
      ELSE IF ResolveKey(s.env, sym) # <<>> THEN literal(ResolveKey(s.env, sym), s)
      ELSE IF ~s.linter
      THEN Panic(s, "Unable to resolve var " \o SymString(sym) \o " in this context")
      ELSE fake(NamespaceFor(s.env, sym))

(***************************************************************************)
(* Lists: macro expansion, special forms, calls.                           *)
(***************************************************************************)
\* isKnownMacros: whether *known-macros* has the name, and the symbols it
\* declares for it (NIL when the value is no sequence)
isKnownMacros(e, name) ==
  IF name \in DOMAIN e.knownMacros THEN [known |-> TRUE, syms |-> e.knownMacros[name]]
  ELSE [known |-> FALSE, syms |-> NIL]

isUnknownCallable(e, s) ==
  IF ~s.linter \/ e.k # "VarRef" THEN [unknown |-> FALSE, syms |-> NIL]
  ELSE IF s.env.vars[e.vr].isMacro THEN [unknown |-> TRUE, syms |-> NIL]
  ELSE LET named(name) ==
             IF isKnownMacros(s.env, name).known
             THEN [unknown |-> TRUE, syms |-> isKnownMacros(s.env, name).syms]
             ELSE IF s.env.vars[e.vr].hasExpr THEN [unknown |-> FALSE, syms |-> NIL]
             ELSE [unknown |-> /\ e.vr[1] \in {CurrentNamespace, CoreNamespace}
                               /\ s.env.vars[e.vr].isFake
                               /\ e.vr[1] # CoreNamespace,
                   syms |-> NIL]
       IN  named(IF e.vr[1] \notin {CurrentNamespace, CoreNamespace}
                 THEN e.vr[1] \o "/" \o e.vr[2] ELSE e.vr[2])

\* the symbols of a known macro join the innermost frame of the linter bindings
RECURSIVE AddLinterBindings(_, _)
AddLinterBindings(b, syms) ==
  IF syms = <<>> THEN b
  ELSE AddLinterBindings(IF IsSymbol(Head(syms)) THEN AddBinding(b, Head(syms), 0) ELSE b,
                         Tail(syms))

\* what parseList sets up for the arguments of a call, from isUnknownCallable
enterCall(c, u) ==
  IF u.unknown
  THEN [c EXCEPT !.isUnknownCallableScope = TRUE,
                 !.linterBindings = IF u.syms.k # "nil"
                                    THEN AddLinterBindings(PushFrame(@), u.syms.items) ELSE @]
  ELSE [c EXCEPT !.isUnknownCallableScope = FALSE]

\* the FnExpr of a function value: params parameters p, and with rest a rest
\* parameter after them
Params(n) == [i \in 1..n |-> Sym("p")]
FnArity(n) == [k |-> "FnArity", args |-> Params(n), body |-> <<>>, pos |-> NoInfo]
FnExprOf(value) ==
  CASE value = "fn" ->
         [k |-> "Fn", arities |-> <<FnArity(1)>>, variadic |-> NoExpr, self |-> "", pos |-> NoInfo]
    [] value = "fn02v" ->
         [k |-> "Fn", arities |-> <<FnArity(0), FnArity(2)>>, variadic |-> FnArity(5),
          self |-> "", pos |-> NoInfo]
    [] OTHER -> NoExpr

\* CallExpr.Name
CallName(call) ==
  CASE call.callable.k = "VarRef" -> call.callable.vr[1] \o "/" \o call.callable.vr[2]
    [] call.callable.k = "Binding" -> call.callable.binding.name
    [] call.callable.k = "Literal" -> call.callable.obj.name
    [] OTHER -> "fn"

\* whether a literal object implements Callable
IsCallableObject(obj) == obj.k \in {"keyword", "var"}

\* selectArity that never falls back on the variadic arity
selectArityFixedOnly(fnExpr, passedArgsCount) ==
  IF \E i \in DOMAIN fnExpr.arities : Len(fnExpr.arities[i].args) = passedArgsCount
  THEN fnExpr.arities[CHOOSE i \in DOMAIN fnExpr.arities :
                        Len(fnExpr.arities[i].args) = passedArgsCount]
  ELSE NoExpr

\* selectArity: the arity of fnExpr for a number of arguments, NoExpr for none
selectArity(fnExpr, passedArgsCount) ==
  IF \E i \in DOMAIN fnExpr.arities : Len(fnExpr.arities[i].args) = passedArgsCount
  THEN fnExpr.arities[CHOOSE i \in DOMAIN fnExpr.arities :
                        /\ Len(fnExpr.arities[i].args) = passedArgsCount
                        /\ \A j \in 1..(i - 1) :
                              Len(fnExpr.arities[j].args) # passedArgsCount]
  ELSE IF fnExpr.variadic # NoExpr /\ passedArgsCount >= Len(fnExpr.variadic.args) - 1
  THEN fnExpr.variadic
  ELSE NoExpr

\* Expr.InferType of the expressions a literal makes, "" for no type
InferType(e) ==
  IF e.k = "Literal" /\ e.obj.k = "string" THEN "String"
  ELSE IF e.k = "Literal" /\ e.obj.k = "num" THEN "Int"
  ELSE ""

\* checkTypes: one warning for every argument whose inferred type is not the
\* declared one (only parameters that have an argument declare a type here)
checkTypes(declaredArgs, call, s) ==
  LET bad == SelectSeq([i \in DOMAIN declaredArgs |-> i],
                       LAMBDA i : /\ i \in DOMAIN call.args
                                  /\ getTaggedTypes(declaredArgs[i]) # ""
                                  /\ InferType(call.args[i]) # ""
                                  /\ InferType(call.args[i]) # getTaggedTypes(declaredArgs[i]))
  IN  [s EXCEPT !.problems = @ + Len(bad),
                !.log = (@ \o [i \in DOMAIN bad |->
                                 [ev |-> "warning", pos |-> call.args[bad[i]].pos,
                                  msg |-> "arg[" \o ToString(bad[i] - 1) \o "] of "
                                          \o CallName(call) \o " must have type "
                                          \o getTaggedTypes(declaredArgs[bad[i]])
                                          \o ", got " \o InferType(call.args[bad[i]])]])
                        \o <<[ev |-> "checkTypes", pos |-> call.pos,
                               args |-> Len(declaredArgs)]>>]

reportWrongArity(fnExpr, isMacro, call, pos, s) ==
  LET selected(v) ==
        IF v # NoExpr THEN checkTypes(v.args, call, s)
        ELSE printParseWarning(s, pos, "Wrong number of args (" \o ToString(Len(call.args))
                                       \o ") passed to " \o CallName(call))
  IN  selected(selectArity(fnExpr, IF isMacro THEN Len(call.args) + 2 ELSE Len(call.args)))

reportNotAFunction(s, pos, name) == printParseWarning(s, pos, name \o " is not a function")

\* checkCall: the linter's check of a call against the expression of its callable
checkCall(e, isMacro, call, pos, s) ==
  CASE e.k = "Fn" -> reportWrongArity(e, isMacro, call, pos, s)
    [] e.k = "Map" ->
         IF Len(call.args) = 0 \/ Len(call.args) > 2
         THEN printParseWarning(s, pos, "Wrong number of args (" \o ToString(Len(call.args))
                                        \o ") passed to a map")
         ELSE s
    [] e.k = "Set" ->
         IF Len(call.args) = 0 \/ Len(call.args) > 1
         THEN printParseWarning(s, pos, "Wrong number of args (" \o ToString(Len(call.args))
                                        \o ") passed to a set")
         ELSE s
    [] e.k = "Literal" ->
         IF ~IsCallableObject(e.obj) /\ ~e.isSurrogate
         THEN reportNotAFunction(s, pos, CallName(call))
         ELSE IF e.obj.k = "keyword" /\ (Len(call.args) = 0 \/ Len(call.args) > 2)
         THEN printParseWarning(s, pos, "Wrong number of args (" \o ToString(Len(call.args))
                                        \o ") passed to " \o CallName(call))
         ELSE s
    [] e.k \in {"Recur", "Throw"} -> reportNotAFunction(s, pos, CallName(call))
    [] OTHER -> s

\* the linter's checks of parseList on the CallExpr it has built.  No var of
\* the model has an :arglists entry in its metadata
lintCall(call, pos, s) ==
  IF ~s.linter THEN s
  ELSE IF call.callable.k = "VarRef"
  THEN LET vr == s.env.vars[call.callable.vr]
       IN  IF vr.Value # "nil"
           THEN IF FnExprOf(vr.Value) # NoExpr
                THEN reportWrongArity(FnExprOf(vr.Value), vr.isMacro, call, pos, s)
                ELSE IF IsCallable(vr.Value) THEN s
                ELSE reportNotAFunction(s, pos, CallName(call))
           ELSE checkCall(vr.expr, vr.isMacro, call, pos, s)
  ELSE checkCall(call.callable, FALSE, call, pos, s)

parseCall(obj, s, currentIsUnknownCallableScope) ==
  LET linted(res, s1) == R(res, lintCall(res, obj.pos, s1))
      call(c, args) ==
        IF Failed(args.s) THEN R(NoExpr, args.s)
        ELSE linted([k |-> "Call", callable |-> c.e, args |-> args.es, pos |-> obj.pos], args.s)
      deferred(u, r) ==
        IF u.unknown /\ u.syms.k # "nil"
        THEN R(r.e, [r.s EXCEPT !.ctx.linterBindings = PopFrame(@)])
        ELSE r
      entered(c, u) ==
        deferred(u, call(c, parseSeq(Rest(obj.items), [c.s EXCEPT !.ctx = enterCall(@, u)])))
      callable(c) ==
        IF Failed(c.s) THEN R(NoExpr, c.s)
        ELSE entered(c, isUnknownCallable(c.e, c.s))
  IN  callable(Parse(First(obj),
                     [s EXCEPT !.ctx.isUnknownCallableScope = currentIsUnknownCallableScope]))

\* the if case of parseList warns whenever the else branch is missing
ifWarnsWithoutToggle(linter, count, warnings) == linter /\ count < 4

\* the test of the if case of parseList for its warning
ifWarns(linter, count, warnings) == linter /\ count < 4 /\ warnings.ifWithoutElse

\* the linter's checks of the do case of parseList on the parsed body
doWarning(s, body, pos) ==
  IF ~s.linter THEN s
  ELSE IF Len(body) = 0 THEN printParseWarning(s, pos, "do form with empty body")
  ELSE IF Len(body) = 1 THEN printParseWarning(s, pos, "redundant do form")
  ELSE s

\* the switch of parseList on the head of a non-empty list
parseForm(obj, s, currentIsUnknownCallableScope) ==
  LET if(t) == IF Failed(t.s) THEN R(NoExpr, t.s)
               ELSE R([k |-> "If", cond |-> t.es[1], positive |-> t.es[2],
                       negative |-> t.es[3], pos |-> obj.pos], t.s)
      do(b) == IF Failed(b.s) THEN R(NoExpr, b.s)
               ELSE IF ~HasInfo(First(obj)) THEN PanicOf(b.s, "runtime.Error", NilDereference)
               ELSE R([k |-> "Do", body |-> b.es, isCreatedByMacro |-> isCreatedByMacro(obj),
                       pos |-> obj.pos],
                      doWarning(b.s, b.es, obj.pos))
      throw(r) == IF Failed(r.s) THEN R(NoExpr, r.s)
                  ELSE R([k |-> "Throw", e |-> r.e, pos |-> obj.pos], r.s)
      special(name) ==
        CASE name = STR.quote -> R(NewLiteralExpr(Second(obj)), s)
          [] name = STR._if ->
               IF checkForm(obj, 3, 4) # "" THEN Panic(s, checkForm(obj, 3, 4))
               ELSE if(parseSeq(<<Second(obj), Third(obj), Fourth(obj)>>,
                                IF ifWarns(s.linter, Len(obj.items), s.warnings)
                                THEN printParseWarning(s, obj.pos, "missing else branch")
                                ELSE s))
          [] name = STR.setMacro_ -> parseSetMacro(obj, s)
          [] name = STR.def -> parseDef(obj, s, FALSE)
          [] name = STR.defLinter -> parseDef(obj, s, TRUE)
          [] name = STR._var -> parseVar(obj, s)
          [] name = STR.fn_ -> parseFn(obj, s)
          [] name = STR.let_ -> parseLetLoop(obj, "let", s)
          [] name = STR.letfn_ -> parseLetLoop(obj, "letfn", s)
          [] name = STR.loop_ -> parseLetLoop(obj, "loop", s)
          [] name = STR.recur -> parseRecur(obj, s)
          [] name = STR.do -> do(parseBody(Rest(obj.items), s))
          [] name = STR.throw -> throw(Parse(Second(obj), s))
          [] name = STR.try -> parseTry(obj, s)
          [] OTHER -> parseCall(obj, s, currentIsUnknownCallableScope)
  IN  special(IF IsSymbol(First(obj)) /\ First(obj).ns = "" THEN First(obj).name ELSE "")

\* the Go runtime's fatal error when the goroutine stack is exhausted
StackOverflow == "fatal error: stack overflow"

parseList(obj, s) ==
  LET reparsed(r) == R(r.e, [r.s EXCEPT !.expansions = @ - 1])
      deferred(m, r) ==
        R(r.e, [r.s EXCEPT !.ctx.isUnknownCallableScope = m.s.ctx.isUnknownCallableScope])
      expanded(m) ==
        IF Failed(m.s) THEN R(NoExpr, m.s)
        ELSE IF ~Identical(m.obj, obj)
        THEN IF m.s.expansions >= MaxExpand THEN PanicOf(m.s, "fatal", StackOverflow)
             ELSE reparsed(Parse(m.obj, [m.s EXCEPT !.expansions = @ + 1]))
        ELSE IF obj.items = <<>> THEN R(NewLiteralExpr(obj), m.s)
        ELSE deferred(m, parseForm(obj, [m.s EXCEPT !.ctx.isUnknownCallableScope = FALSE],
                                   m.s.ctx.isUnknownCallableScope))
  IN  expanded(macroexpand1(obj, s))

\* what of a ParseContext the scoped pushes and flag changes touch: the frames
\* (without the usage marks of their bindings), the loop bindings and the flags
Scope(c) ==
  [localBindings |->
     [i \in DOMAIN c.localBindings |->
        [frame |-> c.localBindings[i].frame,
         bindings |-> [n \in DOMAIN c.localBindings[i].bindings |->
                         [name |-> c.localBindings[i].bindings[n].name,
                          index |-> c.localBindings[i].bindings[n].index,
                          frame |-> c.localBindings[i].bindings[n].frame]]]],
   loopBindings |-> c.loopBindings,
   noRecurAllowed |-> c.noRecurAllowed,
   isUnknownCallableScope |-> c.isUnknownCallableScope]

Parse(obj, s) ==
  LET done(r) ==
        R(r.e, Event(r.s, [ev |-> "Parse", pos |-> obj.pos, k |-> obj.k, obj |-> obj,
                           before |-> Scope(s.ctx), after |-> Scope(r.s.ctx),
                           linterBindings |-> s.ctx.linterBindings,
                           out |-> r.e, err |-> r.s.err]))
      wrapped(r, m) ==
        IF Failed(m.s) THEN R(NoExpr, m.s)
        ELSE R([k |-> "Meta", meta |-> m.e, expr |-> r.e, pos |-> obj.pos], m.s)
      meta(r) ==
        IF Failed(r.s) \/ obj.k \notin {"vec", "map", "set"} \/ obj.meta.k = "nil" THEN r
        ELSE wrapped(r, parseMap(obj.meta, obj.pos, r.s))
  IN  done(meta(CASE obj.k = "vec" -> parseVector(obj, s)
                  [] obj.k = "map" -> parseMap(obj, obj.pos, s)
                  [] obj.k = "set" -> parseSet(obj, obj.pos, s)
                  [] obj.k = "list" -> parseList(obj, s)
                  [] obj.k = "sym" -> parseSymbol(obj, s)
                  [] OTHER -> R(NewLiteralExpr(obj), s)))

(***************************************************************************)
(* The driver: one top-level form, one TryParse.                           *)
(***************************************************************************)
(***************************************************************************)
(* The forms a run may read.  Locals are x, y, a, b, e; g is a function    *)
(* var and d a macro var without value in the current namespace, m and w   *)
(* are macros of core, u names nothing, Error is a built-in type.          *)
(***************************************************************************)
\* nesting depth of the generated forms
MaxDepth == 2
\* arities of a generated fn form
MaxArities == 2
\* children of a generated try form
MaxTryChildren == 3

S(name) == Sym(name)
Recur0 == List(<<S("recur")>>)
Recur1 == List(<<S("recur"), Num>>)
CatchOf(body) == List(<<S("catch"), S("Error"), S("e")>> \o body)
FinallyOf(body) == List(<<S("finally")>> \o body)

Leaves == {Recur0, Recur1, Num, S("x")}

\* f in each position a form can take inside a larger form
Wrap(f) ==
  << List(<<S("loop"), Vec(<<>>), f>>),
    List(<<S("loop"), Vec(<<S("x"), Num>>), f>>),
    List(<<S("loop"), Vec(<<>>), f, Num>>),
    List(<<S("fn"), Vec(<<>>), f>>),
    List(<<S("fn"), Vec(<<S("x")>>), f>>),
    List(<<S("fn"), Vec(<<S("a"), S("&"), S("b")>>), f, Num>>),
    List(<<S("try"), f>>),
    List(<<S("try"), Num, CatchOf(<<f>>)>>),
    List(<<S("try"), Num, FinallyOf(<<f>>)>>),
    List(<<S("let"), Vec(<<>>), f>>),
    List(<<S("let"), Vec(<<S("x"), Num>>), f, Num>>),
    List(<<S("letfn"), Vec(<<>>), f>>),
    List(<<S("do"), f>>),
    List(<<S("do"), f, Num>>),
    List(<<S("if"), Num, f>>),
    Vec(<<f>>),
    List(<<S("g"), f>>) >>

RECURSIVE Nested(_)
Nested(d) ==
  IF d = 0 THEN Leaves
  ELSE Nested(d - 1) \cup {Wrap(f)[i] : f \in Nested(d - 1), i \in 1..Len(Wrap(Num))}

\* sequences over S of length at most n
RECURSIVE SeqsUpTo(_, _)
SeqsUpTo(S0, n) ==
  IF n = 0 THEN {<<>>}
  ELSE SeqsUpTo(S0, n - 1)
       \cup {Append(q, x) : q \in {q \in SeqsUpTo(S0, n - 1) : Len(q) = n - 1}, x \in S0}

\* fn forms: every order of up to MaxArities signatures
ParamVectors ==
  { Vec(<<>>), Vec(<<S("a")>>), Vec(<<S("a"), S("b")>>),
    Vec(<<S("&"), S("b")>>), Vec(<<S("a"), S("&"), S("b")>>) }
Signatures == {List(<<p, Num>>) : p \in ParamVectors}
FnForms ==
  {List(<<S("fn")>> \o q) : q \in SeqsUpTo(Signatures, MaxArities)}
  \cup {List(<<S("fn"), S("f")>> \o q) : q \in SeqsUpTo(Signatures, 1)}
  \cup {List(<<S("fn"), p, Num>>) : p \in ParamVectors}
  \cup {List(<<S("fn"), Num>>), List(<<S("fn"), List(<<Num>>)>>),
        List(<<S("fn"), Vec(<<S("&"), S("a"), S("b")>>)>>),
        List(<<S("fn"), Vec(<<S("a"), S("&")>>), Recur1>>),
        List(<<S("fn"), Vec(<<Num>>), Recur1>>)}

\* try forms: every order of up to MaxTryChildren children
TryChildren == {Num, CatchOf(<<Num>>), FinallyOf(<<Num>>), FinallyOf(<<>>)}
TryForms == {List(<<S("try")>> \o q) : q \in SeqsUpTo(TryChildren, MaxTryChildren)}

\* let / loop / letfn forms over two names, and bodies and values that refer to them
LetNames == {S("x"), S("y")}
LetValues == {S("x"), S("y"), Num}
LetForms ==
  {List(<<S(h), Vec(<<n1, v1, n2, v2>>), b>>) :
     h \in {"let", "loop", "letfn"}, n1 \in LetNames, v1 \in LetValues,
     n2 \in LetNames, v2 \in LetValues, b \in {S("x")}}
  \cup {List(<<S(h), Vec(<<n, v>>), b>>) :
          h \in {"let", "loop", "letfn"}, n \in {S("x"), S("g"), S("Error"), QSym("user", "x"), Num},
          v \in {S("x"), S("g"), Num}, b \in {S("x"), S("g"), S("Error"), QSym("user", "g")}}
  \cup {List(<<S(h), Vec(<<S("x"), Num>>), List(<<S(h), Vec(<<S("x"), S("x")>>), S("x")>>)>>) :
          h \in {"let", "loop", "letfn"}}
  \cup {List(<<S(h)>> \o q) : h \in {"let", "loop", "letfn"},
          q \in {<<>>, <<Num>>, <<Vec(<<S("x")>>)>>, <<Vec(<<S("x"), Num, S("y")>>), S("x")>>}}
  \cup {List(<<S("let"), Vec(<<S("x"), Num>>), List(<<S(h)>> \o q)>>) :
          h \in {"let", "loop", "letfn"},
          q \in {<<S("x")>>, <<Vec(<<S("x"), Num, S("y")>>), S("x")>>}}

\* symbols on their own and as heads of calls, macros included
Heads ==
  { S("g"), S("d"), S("m"), S("w"), S("u"), S("x"), Num, QSym("joker.core", "m"),
    QSym("joker.core", "w"), QSym("user", "g"), QSym("nowhere", "g"), S("Error") }
CallForms ==
  Heads
  \cup {List(<<h>>) : h \in Heads}
  \cup {List(<<h, a>>) : h \in Heads, a \in {Num, S("g"), S("u")}}
  \cup {List(<<S(h), Vec(<<S(n), Num>>), List(<<c, Num>>)>>) :
          h \in {"let"}, n \in {"m", "w", "g", "d"},
          c \in {S("m"), S("w"), S("g"), S("d"), QSym("joker.core", "m"), QSym("joker.core", "w")}}
  \cup { List(<<>>),
         List(<<S("w"), List(<<S("w"), S("g")>>)>>),
         List(<<S("w"), List(<<S("m"), S("g")>>)>>),
         List(<<S("w"), Recur0>>),
         List(<<S("loop"), Vec(<<>>), List(<<S("w"), Recur0>>)>>),
         List(<<S("quote"), S("u")>>),
         List(<<S("throw"), S("g")>>),
         List(<<S("if"), Num>>),
         List(<<S("if"), Num, Num, Num, Num>>),
         List(<<S("if"), S("g"), S("u"), Num>>) }

Forms == {Place(f, <<>>) : f \in Nested(MaxDepth) \cup FnForms \cup TryForms \cup LetForms \cup CallForms}

\* WARNINGS as the package initialises it
DefaultWarnings ==
  [ifWithoutElse |-> FALSE, unusedFnParameters |-> FALSE, fnWithEmptyBody |-> TRUE,
   ignoredUnusedNamespaces |-> {}, entryPoints |-> {}]

Init ==
  /\ LINTER_MODE \in BOOLEAN
  /\ DIALECT = "CLJ"
  /\ WARNINGS = DefaultWarnings
  /\ PROBLEM_COUNT = 0
  /\ form \in Forms
  /\ ctx = NewContext
  /\ GLOBAL_ENV = InitialEnv
  /\ expr = NoExpr
  /\ err = ""
  /\ log = <<>>
  /\ pc = "read"

\* the deferred function of TryParse returns every panic value it recovers
recoversAll(kind) == TRUE

\* the type switch of the deferred function of TryParse: the panic values it
\* returns as the error
recovers(kind) == kind \in {"ParseError", "EvalError", "ExInfo"}

(***************************************************************************)
(* A second family of forms: the special forms with every element count,   *)
(* defs, vars, macros that build their expansion or throw, known macros of *)
(* the linter and symbols of the CLJS dialect.  x2 and y2 are declared by  *)
(* the known macro km, kn is a known macro that declares nothing.          *)
(***************************************************************************)
Num42 == Obj("num", "", "42", <<>>)
Private == ArrayMap(<<Kw("private"), Bool("true")>>)
TagString == ArrayMap(<<Kw("tag"), S("String")>>)
SkipRedundantDo == ArrayMap(<<Kw("skip-redundant-do"), Bool("true")>>)

\* (h), (h a), (h a a) ... up to five elements
ArityForms(h, a) ==
  {List(<<S(h)>>), List(<<S(h), a>>), List(<<S(h), a, a>>), List(<<S(h), a, a, a>>),
   List(<<S(h), a, a, a, a>>)}

FixedArityForms ==
  UNION {ArityForms(h, a) : h \in {"quote", "throw", "var", "if", "def", "set-macro__"},
                            a \in {Num, S("g")}}
  \cup {List(<<S("set-macro__"), List(<<S("var"), S("g")>>)>>),
        List(<<S("set-macro__"), List(<<S("var"), S("g")>>), Num>>),
        List(<<S("var"), S("u")>>), List(<<S("var"), QSym("nowhere", "u")>>),
        List(<<S("var"), QSym("joker.core", "u")>>),
        List(<<S("quote"), List(<<S("u"), S("u")>>)>>)}

IfForms ==
  {List(<<S("if")>> \o q) : q \in SeqsUpTo({Num, S("g")}, 4)}
  \cup {List(<<S("if"), Num, List(<<S("if"), Num, Num>>)>>),
        List(<<S("if"), Num, List(<<S("if"), Num, Num>>), List(<<S("if"), Num, Num, Num>>)>>),
        List(<<S("do"), List(<<S("if"), Num, Num>>), List(<<S("if"), Num, Num>>)>>)}

DoBodies ==
  {List(<<S("do"), Num>>), List(<<S("do"), Num, Num>>), List(<<S("do")>>),
   List(<<S("wd"), Num>>), List(<<S("bd"), Num>>),
   WithMeta(List(<<S("do"), Num>>), SkipRedundantDo)}
DoForms ==
  DoBodies
  \cup {List(<<S("do"), b>>) : b \in DoBodies}
  \cup {List(<<S("do"), b, Num>>) : b \in DoBodies}
  \cup {List(<<S("fn"), Vec(<<>>), b>>) : b \in DoBodies}
  \cup {List(<<S("let"), Vec(<<>>), b, b>>) : b \in DoBodies}
  \cup {List(<<S("wd"), b>>) : b \in DoBodies}

DefNames ==
  {S("x"), S("g"), QSym("user", "x"), QSym("joker.core", "x"), QSym("nowhere", "x"), Num,
   WithMeta(S("x"), Private)}
DefForms ==
  {List(<<S(h), n>> \o q) : h \in {"def", "def-linter__"}, n \in DefNames,
     q \in {<<>>, <<Num42>>, <<S("u")>>, <<MakeString("doc"), Num42>>, <<Num, Num42>>,
            <<MakeString("doc"), S("u")>>, <<Num, S("u")>>}}
  \cup {List(<<S("do"), List(<<S("def"), S("x"), Num>>), List(<<S("x"), Num>>)>>),
        List(<<S("fn"), Vec(<<>>), List(<<S("def"), S("x"), Num>>)>>)}
  \cup {List(<<S("do"), List(<<S("def"), n, Num>>), List(<<S("def"), S("x")>> \o q)>>) :
          n \in {WithMeta(S("x"), Private), WithMeta(S("x"), TagString)},
          q \in {<<Num, Num42>>, <<S("u")>>, <<MakeString("doc"), Num42>>}}

MacroForms ==
  {List(<<S(h), a>>) : h \in {"bg", "bd", "wd", "w", "m", "te", "tx", "nc"},
                       a \in {Num, S("g"), S("u"), List(<<S("g"), Num>>),
                              List(<<S("bg"), Num>>), List(<<S("tx"), Num>>)}}
  \cup {List(<<S("do"), S("u"), List(<<S(h), Num>>)>>) : h \in {"te", "tx", "nc", "bd"}}
  \cup {List(<<S("let"), Vec(<<S("x"), Num>>), List(<<S(h), S("x")>>)>>) :
          h \in {"te", "tx", "nc", "bd", "bg"}}

SymbolForms ==
  {S("g"), S("u"), S("g."), S("u."), S("g.u"), S("u.v"), S("joker.core"), S(".call"),
   QSym("joker.core", "zz"), QSym("nowhere", "g"), QSym("user", "zz"), S("x2")}
KnownMacroForms ==
  SymbolForms
  \cup {List(<<S(h), a>>) : h \in {"km", "kn", "g", "u", "g."}, a \in SymbolForms}
  \cup {List(<<S(h), a, b>>) : h \in {"km"}, a \in {S("x2"), S("y2"), S("u")},
                               b \in {S("x2"), S("y2"), List(<<S("km"), S("x2")>>)}}
  \cup {WithMeta(Vec(<<S("g")>>), Private), ArrayMap(<<Kw("a"), S("g")>>),
        MapSet(<<S("g"), S("u")>>),
        List(<<S("fn"), Vec(<<S("a"), S("b")>>), List(<<S("km"), S("a"), S("x2")>>)>>),
        List(<<S("fn"), S("f"), Vec(<<S("a"), S("&"), S("b")>>), List(<<S("kn"), S("b")>>)>>),
        List(<<S("let"), Vec(<<S("x"), Num, S("y"), S("x")>>), List(<<S("km"), S("x"), S("y2")>>)>>),
        List(<<S("try"), Num, CatchOf(<<List(<<S("km"), S("e")>>)>>)>>)}

SpecialForms ==
  {Place(f, <<>>) : f \in FixedArityForms \cup IfForms \cup DoForms \cup DefForms
                           \cup MacroForms \cup KnownMacroForms}

\* the environment of a linter run that configures known macros
LinterEnv ==
  [InitialEnv EXCEPT !.knownMacros =
     ("km" :> Vec(<<S("x2"), S("y2")>>)) @@ ("kn" :> NIL)]

InitSpecial ==
  /\ LINTER_MODE \in BOOLEAN
  /\ DIALECT \in {"CLJ", "CLJS"}
  /\ WARNINGS \in {[DefaultWarnings EXCEPT !.ifWithoutElse = b] : b \in BOOLEAN}
  /\ PROBLEM_COUNT = 0
  /\ form \in SpecialForms
  /\ ctx = NewContext
  /\ GLOBAL_ENV = LinterEnv
  /\ expr = NoExpr
  /\ err = ""
  /\ log = <<>>
  /\ pc = "read"

(***************************************************************************)
(* A third family of forms, for the linter: bindings and parameters that   *)
(* are used or not, parameter vectors of every shape, calls of functions,  *)
(* collections, keywords and other expressions with zero to three          *)
(* arguments, and the conditions the linter recovers from.  h is a         *)
(* function var with the arities [], [p p] and [p p p p & p]; df is a var  *)
(* defined as (fn [a] ...), tf as (fn [^String a] ...), and mm a macro     *)
(* defined as (fn [&form &env x] ...), none of them evaluated.             *)
(***************************************************************************)
SkipUnused == ArrayMap(<<Kw("skip-unused"), Bool("true")>>)
Str1 == MakeString("s")

BindingForms ==
  {List(<<S(h), Vec(q), b>>) :
     h \in {"let", "loop", "letfn"},
     q \in {<<S("x"), Num>>, <<S("b"), Num, S("a"), Num>>, <<S("x"), Num, S("x"), Num>>,
            <<S("x"), Num, S("y"), S("x")>>, <<S("_x"), Num>>,
            <<WithMeta(S("x"), SkipUnused), Num>>, <<S("x"), S("x")>>,
            <<S("x"), List(<<S("fn"), Vec(<<>>), S("x")>>)>>,
            <<S("x"), Num, S("x"), S("x")>>},
     b \in {Num, S("x"), S("a"), List(<<S("fn"), Vec(<<>>), S("x")>>),
            List(<<S("let"), Vec(<<S("x"), Num>>), S("x")>>),
            List(<<S("do"), Num, Num>>)}}
  \cup {List(<<S(h), WithMeta(Vec(<<S("x"), Num, S("y"), Num>>), SkipUnused), b>>) :
          h \in {"let", "loop", "letfn"}, b \in {Num, S("x")}}
  \cup {List(<<S(h), Vec(<<>>), Num>>) : h \in {"let", "loop", "letfn"}}
  \cup {List(<<S(h), Vec(<<S("x"), Num>>)>>) : h \in {"let", "loop", "letfn"}}
  \cup {List(<<S(h), Vec(<<n, Num>>), Num>>) :
          h \in {"let", "loop", "letfn"}, n \in {Num, QSym("user", "x"), Str1}}

ParamShapes ==
  {Vec(q) : q \in {<<>>, <<S("a")>>, <<S("b"), S("a")>>, <<S("a"), S("&")>>, <<S("&")>>,
                   <<S("a"), S("&"), S("b")>>, <<S("&"), S("b")>>, <<S("&"), S("b"), S("c")>>,
                   <<S("a"), S("&"), S("b"), S("c")>>, <<Num>>, <<S("a"), Num>>,
                   <<S("&"), Num>>, <<S("a"), S("&"), Num>>, <<Num, S("&")>>,
                   <<S("_x"), S("a")>>, <<QSym("user", "a")>>}}
ParamForms ==
  {List(<<S("fn"), p>> \o b) :
     p \in ParamShapes,
     b \in {<<>>, <<Num>>, <<S("a")>>, <<S("b")>>, <<List(<<S("do"), Num, Num>>)>>,
            <<List(<<S("recur"), Num>>)>>}}

Callables ==
  {S("g"), S("h"), S("df"), S("tf"), S("mm"), S("u"), S("nc"), Num, Str1, Kw("k"),
   ArrayMap(<<Kw("a"), Num>>), MapSet(<<Num>>), Vec(<<Num>>),
   List(<<S("fn"), Vec(<<S("a")>>), S("a")>>),
   List(<<S("fn"), Vec(<<S("a"), S("&"), S("b")>>), S("a"), S("b")>>),
   List(<<S("fn"), List(<<Vec(<<>>), Num>>), List(<<Vec(<<S("a"), S("b")>>), S("a"), S("b")>>)>>),
   List(<<S("fn"), Vec(<<WithMeta(S("a"), TagString)>>), S("a")>>),
   List(<<S("throw"), Num>>), List(<<S("if"), Num, Num, Num>>), List(<<S("do"), Num, Num>>),
   List(<<S("quote"), S("a")>>)}
CallArgs == {<<>>, <<Num>>, <<Str1>>, <<Num, Num>>, <<Num, Num, Num>>, <<Num, Num, Num, Num>>}
LintedCalls ==
  {List(<<c>> \o a) : c \in Callables, a \in CallArgs}
  \cup {List(<<S("loop"), Vec(<<>>), List(<<List(<<S("recur")>>)>> \o a)>>) : a \in CallArgs}
  \cup {List(<<S("let"), Vec(<<S("x"), Num>>), List(<<S("x")>> \o a)>>) : a \in CallArgs}

Recoverable ==
  {S("u"), QSym("user", "u"), QSym("nowhere", "u"), QSym("joker.core", "u"),
   List(<<S("g"), S("u")>>), List(<<S("u"), S("u")>>), List(<<S("km"), S("u")>>),
   List(<<S("km"), S("x2")>>), List(<<S("do"), S("u"), S("u")>>),
   List(<<S("try"), Num, List(<<S("catch"), S("u"), S("e"), Num>>)>>),
   List(<<S("try"), Num, List(<<S("catch"), Num, S("e"), Num>>)>>),
   List(<<S("try"), Num, List(<<S("catch"), S("g"), S("e"), S("e")>>)>>),
   List(<<S("try"), Num, List(<<S("catch"), S("Error"), S("e"), S("e")>>)>>),
   List(<<S("try"), Num, List(<<S("catch"), S("Error"), Num, Num>>)>>),
   List(<<S("def"), S("x"), Num, S("u")>>), List(<<S("def"), S("x"), Str1, S("u")>>),
   List(<<S("def"), S("x"), Num, List(<<S("do"), Num>>)>>)}

LinterForms ==
  {Place(f, <<>>) : f \in BindingForms \cup ParamForms \cup LintedCalls \cup Recoverable}

DefinedFn(params) ==
  [k |-> "Fn",
   arities |-> <<[k |-> "FnArity", args |-> params, body |-> <<>>, pos |-> NoInfo]>>,
   variadic |-> NoExpr, self |-> "", pos |-> NoInfo]

\* the environment after the definitions of h, df, tf and mm were linted
DefinedEnv ==
  [LinterEnv EXCEPT !.vars =
     (<<"user", "h">> :> Var("user", "h", FALSE, "fn02v")) @@
     (<<"user", "df">> :> [Var("user", "df", FALSE, "nil") EXCEPT
                             !.hasExpr = TRUE, !.expr = DefinedFn(<<S("a")>>)]) @@
     (<<"user", "tf">> :> [Var("user", "tf", FALSE, "nil") EXCEPT
                             !.hasExpr = TRUE,
                             !.expr = DefinedFn(<<WithMeta(S("a"), TagString)>>)]) @@
     (<<"user", "mm">> :> [Var("user", "mm", TRUE, "nil") EXCEPT
                             !.hasExpr = TRUE,
                             !.expr = DefinedFn(<<S("&form"), S("&env"), S("x")>>)]) @@
     @]

InitLinter ==
  /\ LINTER_MODE \in BOOLEAN
  /\ DIALECT = "CLJ"
  /\ WARNINGS \in {[DefaultWarnings EXCEPT !.unusedFnParameters = b] : b \in BOOLEAN}
  /\ PROBLEM_COUNT = 0
  /\ form \in LinterForms
  /\ ctx = NewContext
  /\ GLOBAL_ENV = DefinedEnv
  /\ expr = NoExpr
  /\ err = ""
  /\ log = <<>>
  /\ pc = "read"

\* TryParse(form, ctx): the deferred function counts the panic it recovers and
\* returns it or panics again; the stack overflow ends the process.  The last
\* event of the log records what Parse did: the panic, and the problems
\* printed before the deferred function ran
TryParse ==
  /\ pc = "read"
  /\ LET returned(r) ==
           /\ expr' = IF Failed(r.s) THEN NoExpr ELSE r.e
           /\ err' = IF r.s.kind = "fatal" \/ recovers(r.s.kind) THEN r.s.err ELSE ""
           /\ ctx' = r.s.ctx
           /\ GLOBAL_ENV' = r.s.env
           /\ PROBLEM_COUNT' = IF Failed(r.s) /\ r.s.kind # "fatal" THEN r.s.problems + 1
                                ELSE r.s.problems
           /\ log' = Append(r.s.log, [ev |-> "TryParse", kind |-> r.s.kind, msg |-> r.s.err,
                                      out |-> r.e, before |-> PROBLEM_COUNT,
                                      printed |-> r.s.problems - PROBLEM_COUNT])
           /\ pc' = IF r.s.kind = "fatal" THEN "crashed"
                    ELSE IF Failed(r.s) /\ ~recovers(r.s.kind) THEN "panicked"
                    ELSE "parsed"
     IN  returned(Parse(form, Start(LINTER_MODE, DIALECT, WARNINGS, PROBLEM_COUNT, ctx, GLOBAL_ENV)))
  /\ UNCHANGED <<LINTER_MODE, DIALECT, WARNINGS, form>>

Next == TryParse

Spec == Init /\ [][Next]_vars

SpecSpecial == InitSpecial /\ [][Next]_vars

SpecLinter == InitLinter /\ [][Next]_vars

(***************************************************************************)
(* The warnings at the end of the analysis.  Each function ranges over the *)
(* map of namespaces and over the map of vars of each namespace; the order *)
(* in which Go ranges over a map is not defined, so a run takes any order. *)
(***************************************************************************)
\* the position info of an object read from the file <user>
UserInfo == <<-2>>

\* the sequences that hold every element of a set once
RECURSIVE Perms(_)
Perms(set) ==
  IF set = {} THEN {<<>>}
  ELSE UNION {{<<x>> \o q : q \in Perms(set \ {x})} : x \in set}

IndexOf(q, x) == CHOOSE i \in DOMAIN q : q[i] = x

\* for every namespace of nss an order of the keys of its mappings
RECURSIVE MappingOrders(_, _)
MappingOrders(e, nss) ==
  IF nss = {} THEN {<<>>}
  ELSE LET n == CHOOSE m \in nss : TRUE
       IN  {(n :> q) @@ rest : q \in Perms({key \in DOMAIN e.vars : key[1] = n}),
                               rest \in MappingOrders(e, nss \ {n})}
VarOrders(e) == MappingOrders(e, DOMAIN e.nss)
\* the vars, namespace by namespace, as two nested range loops visit them
\* when the maps answer in the orders nsOrder and varOrder
RECURSIVE VisitVars(_, _)
VisitVars(nsOrder, varOrder) ==
  IF nsOrder = <<>> THEN <<>>
  ELSE varOrder[Head(nsOrder)] \o VisitVars(Tail(nsOrder), varOrder)

\* the names the functions report, in the order of sort.Strings
ReportOrder ==
  <<"app", "app/x", "joker.core", "lib", "lib/->r", "lib/x", "user", "user/x", "user/y",
    "->r", "x", "y">>

\* the loop after the range loops: sort.Strings(names), then one warning for
\* every name at positions[name], the position written last for the name
Report(found, what) ==
  LET names == SortSeq([i \in DOMAIN found |-> found[i].name],
                       LAMBDA a, b : IndexOf(ReportOrder, a) < IndexOf(ReportOrder, b))
      last(name) == CHOOSE i \in DOMAIN found :
                      found[i].name = name /\ \A j \in DOMAIN found : found[j].name = name => j <= i
  IN  [i \in DOMAIN names |->
         [ev |-> "warning", pos |-> found[last(names[i])].pos, msg |-> what \o names[i]]]

isIgnoredUnusedNamespace(w, name) == name \in w.ignoredUnusedNamespaces
isEntryPointNs(w, name) == name \in w.entryPoints
isEntryPointVar(w, vr) == isEntryPointNs(w, vr.ns) \/ (vr.ns \o "/" \o vr.name) \in w.entryPoints
isRecordConstructor(name) == HasPrefix(name, "->") \/ HasPrefix(name, "map->")

NamespaceFound(e, order, qualifies(_)) ==
  LET visited == SelectSeq(order, LAMBDA n : qualifies(n)
                                            /\ e.nss[n].info \notin {NoInfo, CoreInfo, UserInfo})
  IN  [i \in DOMAIN visited |-> [name |-> visited[i], pos |-> e.nss[visited[i]].info]]

GloballyUnusedNamespaces(e, w, nsOrder) ==
  Report(NamespaceFound(e, nsOrder,
                        LAMBDA n : /\ ~e.nss[n].isGloballyUsed
                                   /\ ~isIgnoredUnusedNamespace(w, n) /\ ~isEntryPointNs(w, n)),
         "globally unused namespace ")

UnusedNamespaces(e, w, nsOrder) ==
  Report(NamespaceFound(e, nsOrder,
                        LAMBDA n : /\ n # CurrentNamespace /\ ~e.nss[n].isUsed
                                   /\ ~isIgnoredUnusedNamespace(w, n)),
         "unused namespace ")

\* the key of a var is the namespace whose mappings hold it and its name there
GloballyUnusedVars(e, w, nsOrder, varOrder) ==
  LET visited == SelectSeq(VisitVars(nsOrder, varOrder),
                           LAMBDA key : /\ key[1] # CoreNamespace
                                        /\ e.vars[key].ns = key[1]
                                        /\ ~e.vars[key].isGloballyUsed
                                        /\ ~e.vars[key].isPrivate
                                        /\ ~isRecordConstructor(e.vars[key].name)
                                        /\ ~isEntryPointVar(w, e.vars[key])
                                        /\ e.vars[key].info # NoInfo)
  IN  Report([i \in DOMAIN visited |->
                [name |-> e.vars[visited[i]].ns \o "/" \o e.vars[visited[i]].name,
                 pos |-> e.vars[visited[i]].info]],
             "globally unused var ")

UnusedVars(e, nsOrder, varOrder) ==
  LET visited == SelectSeq(VisitVars(nsOrder, varOrder),
                           LAMBDA key : /\ key[1] # CoreNamespace
                                        /\ e.vars[key].ns = key[1]
                                        /\ ~e.vars[key].isUsed
                                        /\ e.vars[key].isPrivate
                                        /\ e.vars[key].info # NoInfo)
  IN  Report([i \in DOMAIN visited |->
                [name |-> e.vars[visited[i]].name, pos |-> e.vars[visited[i]].info]],
             "unused var ")

\* the environments at the end of an analysis: the namespaces user (current),
\* lib and app read from files, the vars x, y and ->r defined in them, and x of
\* lib referred to in user as z; a namespace is used when a var of it is
AnalysedVar(ns, name, pos, private, used) ==
  [Var(ns, name, FALSE, "nil") EXCEPT !.info = pos, !.isPrivate = private, !.isUsed = used,
                                     !.isGloballyUsed = used]
AnalysedEnvs ==
  {[vars |-> (<<"user", "x">> :> AnalysedVar("user", "x", <<1>>, p1, u1)) @@
             (<<"user", "y">> :> AnalysedVar("user", "y", <<2>>, p2, FALSE)) @@
             (<<"lib", "x">> :> AnalysedVar("lib", "x", <<3>>, p3, u3)) @@
             (<<"lib", "->r">> :> AnalysedVar("lib", "->r", <<4>>, FALSE, FALSE)) @@
             (<<"user", "z">> :> AnalysedVar("lib", "x", <<3>>, p3, u3)) @@
             (<<"joker.core", "m">> :> Var("joker.core", "m", TRUE, "identity")),
    nss |-> ("user" :> [isUsed |-> TRUE, isGloballyUsed |-> TRUE, info |-> UserInfo]) @@
            ("joker.core" :> [isUsed |-> TRUE, isGloballyUsed |-> TRUE, info |-> CoreInfo]) @@
            ("lib" :> [isUsed |-> u3, isGloballyUsed |-> u3, info |-> <<5>>]) @@
            ("app" :> [isUsed |-> FALSE, isGloballyUsed |-> FALSE, info |-> <<6>>]),
    knownMacros |-> <<>>] :
     p1 \in BOOLEAN, u1 \in BOOLEAN, p2 \in BOOLEAN, p3 \in BOOLEAN, u3 \in BOOLEAN}

InitWarn ==
  /\ LINTER_MODE = TRUE
  /\ DIALECT = "CLJ"
  /\ WARNINGS \in {[DefaultWarnings EXCEPT !.entryPoints = ep] : ep \in {{}, {"app", "user/y"}}}
  /\ PROBLEM_COUNT = 0
  /\ form = NIL
  /\ ctx = NewContext
  /\ GLOBAL_ENV \in AnalysedEnvs
  /\ expr = NoExpr
  /\ err = ""
  /\ log = <<>>
  /\ pc = "analysed"

\* one call of a function: its warnings are printed, and the log keeps the
\* call with what it printed
Warned(name, printed) ==
  /\ pc = "analysed"
  /\ \A i \in DOMAIN log : log[i].ev # name
  /\ PROBLEM_COUNT' = PROBLEM_COUNT + Len(printed)
  /\ log' = log \o printed \o <<[ev |-> name, out |-> printed]>>
  /\ UNCHANGED <<LINTER_MODE, DIALECT, WARNINGS, form, ctx, GLOBAL_ENV, expr, err, pc>>

WarnOnGloballyUnusedNamespaces ==
  \E nsOrder \in Perms(DOMAIN GLOBAL_ENV.nss) :
    Warned("WarnOnGloballyUnusedNamespaces",
           GloballyUnusedNamespaces(GLOBAL_ENV, WARNINGS, nsOrder))

WarnOnUnusedNamespaces ==
  \E nsOrder \in Perms(DOMAIN GLOBAL_ENV.nss) :
    Warned("WarnOnUnusedNamespaces", UnusedNamespaces(GLOBAL_ENV, WARNINGS, nsOrder))

WarnOnGloballyUnusedVars ==
  \E nsOrder \in Perms(DOMAIN GLOBAL_ENV.nss), varOrder \in VarOrders(GLOBAL_ENV) :
    Warned("WarnOnGloballyUnusedVars",
           GloballyUnusedVars(GLOBAL_ENV, WARNINGS, nsOrder, varOrder))

WarnOnUnusedVars ==
  \E nsOrder \in Perms(DOMAIN GLOBAL_ENV.nss), varOrder \in VarOrders(GLOBAL_ENV) :
    Warned("WarnOnUnusedVars", UnusedVars(GLOBAL_ENV, nsOrder, varOrder))

NextWarn ==
  \/ WarnOnGloballyUnusedNamespaces
  \/ WarnOnUnusedNamespaces
  \/ WarnOnGloballyUnusedVars
  \/ WarnOnUnusedVars

SpecWarn == InitWarn /\ [][NextWarn]_vars

(***************************************************************************)
(* Lexical structure of the form read, from its syntax alone.              *)
(***************************************************************************)
RECURSIVE ObjAt(_, _)
ObjAt(obj, path) ==
  IF path = <<>> THEN obj ELSE ObjAt(obj.items[Head(path)], Tail(path))

HeadIs(obj, name) == IsSeq(obj) /\ obj.items # <<>> /\ IsNamed(obj.items[1], name)

\* the number of parameters a parameter vector declares, rest symbol included
ParamCount(v) == Cardinality({i \in DOMAIN v.items : ~IsNamed(v.items[i], "&")})
DeclaresRest(v) == \E i \in DOMAIN v.items : IsNamed(v.items[i], "&") /\ i + 1 = Len(v.items)

\* Walking from obj down path: site is what encloses the position reached so far.
\*   point     a loop body or fn arity body encloses it
\*   n         the number of names of the innermost such loop or arity
\*   inTry     a try form encloses it with no loop or arity body in between
\*   nonTail   some body between the innermost loop or arity body (included) and
\*             the position has further expressions after the one that holds it
\*   inFn      obj is a child of a fn form (a signature list, when it is a list)
RECURSIVE SiteFrom(_, _, _)
SiteFrom(obj, path, site) ==
  IF path = <<>> THEN site
  ELSE LET i == Head(path)
           last == i = Len(obj.items)
           fresh(n) == [point |-> TRUE, n |-> n, inTry |-> FALSE, nonTail |-> ~last,
                        inFn |-> FALSE]
           inBody == [site EXCEPT !.nonTail = @ \/ ~last, !.inFn = FALSE]
           plain == [site EXCEPT !.inFn = FALSE]
           next ==
             CASE HeadIs(obj, "loop") /\ i >= 3 -> fresh(Len(obj.items[2].items) \div 2)
               [] HeadIs(obj, "fn") /\ i >= 2 ->
                    IF \E j \in 2..(i - 1) : IsVector(obj.items[j])
                    THEN fresh(ParamCount(obj.items[CHOOSE j \in 2..(i - 1) : IsVector(obj.items[j])]))
                    ELSE [site EXCEPT !.inFn = TRUE]
               [] site.inFn /\ IsSeq(obj) /\ i >= 2 -> fresh(ParamCount(obj.items[1]))
               [] HeadIs(obj, "try") /\ i >= 2 -> [plain EXCEPT !.inTry = TRUE]
               [] HeadIs(obj, "let") /\ i >= 3 -> inBody
               [] HeadIs(obj, "letfn") /\ i >= 3 -> inBody
               [] HeadIs(obj, "do") /\ i >= 2 -> inBody
               [] HeadIs(obj, "catch") /\ i >= 4 -> inBody
               [] HeadIs(obj, "finally") /\ i >= 2 -> inBody
               [] OTHER -> plain
       IN  SiteFrom(obj.items[i], Tail(path), next)

Site(pos) ==
  SiteFrom(form, pos, [point |-> FALSE, n |-> 0, inTry |-> FALSE, nonTail |-> FALSE,
                       inFn |-> FALSE])

Events(ev) == {i \in DOMAIN log : log[i].ev = ev}
Last(q) == q[Len(q)]
OnlyNumbers(items) == \A i \in DOMAIN items : items[i].k = "num"

(***************************************************************************)
(* C1.  Every RecurExpr was parsed with a non-empty loop-bindings stack    *)
(* and has as many arguments as the innermost entry, which is the name     *)
(* list of the lexically enclosing loop or fn arity (rest symbol           *)
(* included).  Outside a try, a recur with no enclosing recursion point    *)
(* raises "No recursion point for recur", one with another argument count  *)
(* raises "Mismatched argument count to recur", and one with the right     *)
(* count is accepted, also when the count is zero.  Both modes.            *)
(***************************************************************************)
RecurMatchesLoopBindings ==
  \A i \in Events("parseRecur") :
    LET e == log[i]
        site == Site(e.pos)
        nargs == Len(ObjAt(form, e.pos).items) - 1
    IN  /\ e.out.k = "Recur" =>
             /\ e.loopBindings # <<>>
             /\ Len(e.out.args) = Len(Last(e.loopBindings))
             /\ site.point
             /\ Len(e.out.args) = site.n
        /\ ~site.inTry /\ ~site.point => e.err = "No recursion point for recur"
        /\ ~site.inTry /\ site.point /\ OnlyNumbers(Rest(ObjAt(form, e.pos).items)) =>
             IF nargs = site.n THEN e.out.k = "Recur" /\ e.err = ""
             ELSE e.err = "Mismatched argument count to recur"

\* (recur) accepted in a zero-parameter fn or a loop with an empty binding vector
RecurZeroWitness ==
  \E i \in Events("parseRecur") :
    /\ log[i].out.k = "Recur"
    /\ log[i].out.args = <<>>
    /\ Site(log[i].pos).n = 0
    /\ LINTER_MODE

(***************************************************************************)
(* C2.  A recur lexically inside a try form, with no loop body or fn arity *)
(* body between the try and the recur, raises "Cannot recur across try" in *)
(* both modes, whether or not a recursion point exists; a recur that has a *)
(* loop or arity body between itself and the try never raises it.          *)
(***************************************************************************)
NoRecurAcrossTry ==
  \A i \in Events("parseRecur") :
    Site(log[i].pos).inTry <=> log[i].err = "Cannot recur across try"

\* a recur in a catch or finally body of a try that sits in a loop or fn
RecurAcrossTryWitness ==
  \E i \in Events("parseRecur") :
    /\ Site(log[i].pos).inTry
    /\ log[i].loopBindings # <<>>
    /\ Len(log[i].pos) = 3
    /\ err = "Cannot recur across try"

(***************************************************************************)
(* C3.  In strict mode a recur that is followed by further expressions of  *)
(* an enclosing body, up to and including the body of its loop or fn       *)
(* arity, makes Parse raise "Can only recur from tail position" and return *)
(* no Expr, also when the recur sits in a nested let, letfn, do or catch   *)
(* body.                                                                   *)
(***************************************************************************)
RecurOnlyInTailPosition ==
  pc = "parsed" /\ ~LINTER_MODE =>
    \A i \in Events("parseRecur") :
      log[i].out.k = "Recur" /\ Site(log[i].pos).nonTail =>
        err = "Can only recur from tail position" /\ expr = NoExpr

(***************************************************************************)
(* C4.  Every FnExpr parseFn returns has fixed arities of pairwise         *)
(* different parameter counts and a variadic arity, if any, with more      *)
(* parameters (rest symbol included) than every fixed arity; and a fn form *)
(* whose signatures, in whatever order, hold two fixed ones of the same    *)
(* count, two variadic ones, or a fixed one with at least as many          *)
(* parameters as a variadic one raises a ParseError and yields no FnExpr.  *)
(***************************************************************************)
\* the parameter vectors of a fn form, in order
ParamVectorsOf(obj) ==
  LET rest == IF Len(obj.items) >= 2 /\ IsSymbol(obj.items[2])
              THEN SubSeq(obj.items, 3, Len(obj.items))
              ELSE Rest(obj.items)
  IN  IF rest # <<>> /\ IsVector(rest[1]) THEN <<rest[1]>>
      ELSE IF \A i \in DOMAIN rest : IsSeq(rest[i]) /\ IsVector(First(rest[i]))
      THEN [i \in DOMAIN rest |-> rest[i].items[1]]
      ELSE <<>>

ArityClash(pv) ==
  \E i, j \in DOMAIN pv :
    /\ i # j
    /\ \/ ~DeclaresRest(pv[i]) /\ ~DeclaresRest(pv[j]) /\ ParamCount(pv[i]) = ParamCount(pv[j])
       \/ DeclaresRest(pv[i]) /\ DeclaresRest(pv[j])
       \/ DeclaresRest(pv[i]) /\ ~DeclaresRest(pv[j]) /\ ParamCount(pv[j]) >= ParamCount(pv[i])

FnAritiesCoherent ==
  \A i \in Events("parseFn") :
    LET e == log[i]
        fn == e.out
    IN  /\ fn.k = "Fn" =>
             /\ \A a, b \in DOMAIN fn.arities :
                  a # b => Len(fn.arities[a].args) # Len(fn.arities[b].args)
             /\ fn.variadic # NoExpr =>
                  \A a \in DOMAIN fn.arities :
                    Len(fn.variadic.args) > Len(fn.arities[a].args)
             /\ Len(fn.arities) + (IF fn.variadic # NoExpr THEN 1 ELSE 0)
                  = Len(ParamVectorsOf(ObjAt(form, e.pos)))
        /\ ArityClash(ParamVectorsOf(ObjAt(form, e.pos))) => fn = NoExpr /\ e.err # ""

\* a fixed arity declared after a variadic one with fewer parameters is refused
FixedAfterVariadicWitness ==
  /\ pc = "parsed"
  /\ err = "Can't have fixed arity function with more params than variadic function"
  /\ LET pv == ParamVectorsOf(form)
     IN  Len(pv) = 2 /\ DeclaresRest(pv[1]) /\ ~DeclaresRest(pv[2])

(***************************************************************************)
(* C5.  parseTry accepts the children of a try form only in the order      *)
(* body* catch* finally?: a TryExpr is returned exactly when no regular    *)
(* expression follows a catch and nothing follows a finally, and then it   *)
(* holds the regular children as body, the catch clauses as catches and    *)
(* the one finally clause, if any, which is the last child.                *)
(***************************************************************************)
ChildTypes(obj) == [i \in DOMAIN Rest(obj.items) |-> childType(obj.items[i + 1])]
TypeRank(type) == CASE type = "Regular" -> 0 [] type = "Catch" -> 1 [] OTHER -> 2
InTryOrder(types) ==
  /\ \A i, j \in DOMAIN types : i < j => TypeRank(types[i]) <= TypeRank(types[j])
  /\ Cardinality({i \in DOMAIN types : types[i] = "Finally"}) <= 1
CountOf(types, type) == Cardinality({i \in DOMAIN types : types[i] = type})
\* the children are plain: numbers, (catch Error sym number*) clauses and
\* (finally number*) clauses, so that parsing a child by itself cannot fail
PlainTry(obj) ==
  \A i \in 2..Len(obj.items) :
    LET c == obj.items[i]
    IN  \/ c.k = "num"
        \/ /\ isCatch(c)
           /\ Len(c.items) >= 3
           /\ IsNamed(c.items[2], "Error")
           /\ IsSymbol(c.items[3])
           /\ OnlyNumbers(SubSeq(c.items, 4, Len(c.items)))
        \/ isFinally(c) /\ OnlyNumbers(Rest(c.items))

TryChildrenInOrder ==
  \A i \in Events("parseTry") :
    LET e == log[i]
        types == ChildTypes(ObjAt(form, e.pos))
    IN  /\ e.out.k = "Try" =>
             /\ InTryOrder(types)
             /\ Len(e.out.body) = CountOf(types, "Regular")
             /\ Len(e.out.catches) = CountOf(types, "Catch")
             /\ e.out.hasFinally <=> CountOf(types, "Finally") = 1
             /\ e.out.hasFinally => types[Len(types)] = "Finally"
        /\ ~InTryOrder(types) => e.out = NoExpr /\ e.err # ""
        /\ e.pos = <<>> /\ PlainTry(form) /\ InTryOrder(types) => e.out.k = "Try"

\* a second finally after a finally is refused
SecondFinallyWitness ==
  /\ pc = "parsed"
  /\ HeadIs(form, "try")
  /\ Len(form.items) = 4
  /\ ChildTypes(form) = <<"Catch", "Finally", "Finally">>
  /\ err = "finally clause must be last in try expression"

(***************************************************************************)
(* C6.  Whenever a call of Parse returns or unwinds with a ParseError, at  *)
(* any nesting depth, the frames of localBindings, the loopBindings stack, *)
(* noRecurAllowed and isUnknownCallableScope are what they were when the   *)
(* call began.                                                             *)
(***************************************************************************)
ScopeRestored ==
  /\ \A i \in Events("Parse") :
       log[i].err # StackOverflow => log[i].after = log[i].before
  /\ pc = "parsed" => Scope(ctx) = Scope(NewContext)

\* a ParseError unwinding through a nested call that began with a frame and
\* loop bindings in force, back to a top-level call that began with none
ScopeUnwindWitness ==
  /\ pc = "parsed"
  /\ err # ""
  /\ \E i \in Events("Parse") :
       /\ log[i].err # ""
       /\ Len(log[i].pos) = 1
       /\ log[i].k = "list"
       /\ log[i].before.localBindings # <<>>
       /\ log[i].before.loopBindings # <<>>

(***************************************************************************)
(* C7.  When the head of the list read resolves to a macro that returns    *)
(* its input form itself, macroexpand1 returns that input object, Parse is *)
(* not re-entered on it, and Parse terminates with the ordinary parse of   *)
(* the form (here a call of the macro var).                                *)
(***************************************************************************)
IsIdentityMacroCall(obj) ==
  /\ IsSeq(obj)
  /\ obj.items # <<>>
  /\ IsSymbol(First(obj))
  /\ LET key == ResolveKey(InitialEnv, First(obj))
     IN  /\ key # <<>>
         /\ InitialEnv.vars[key].isMacro
         /\ InitialEnv.vars[key].Value = "identity"

UnchangedMacroResultIsNoExpansion ==
  pc # "read" /\ IsIdentityMacroCall(form) =>
    /\ pc = "parsed"
    /\ \A i \in Events("macroexpand1") : log[i].evaluated => log[i].same
    /\ Cardinality({i \in Events("macroexpand1") : log[i].evaluated}) = 1
    /\ err = "" => expr.k = "Call"

(***************************************************************************)
(* C8.  macroexpand1 invokes the evaluator exactly when the head of the    *)
(* list is a symbol that no enclosing frame binds (a namespace-qualified   *)
(* head is never bound locally) and that resolves to a var with isMacro    *)
(* and a value; in every other case it returns the input sequence itself   *)
(* and changes no used flag of any var or namespace.                       *)
(***************************************************************************)
BoundLocally(sym, localBindings) ==
  sym.ns = "" /\ \E i \in DOMAIN localBindings : sym.name \in DOMAIN localBindings[i].bindings

NamesMacro(sym, e) ==
  LET key == ResolveKey(e, sym)
  IN  key # <<>> /\ e.vars[key].isMacro /\ e.vars[key].Value # "nil"

MacroOnlyForUnboundMacroVar ==
  \A i \in Events("macroexpand1") :
    LET e == log[i]
    IN  /\ e.evaluated <=>
             /\ IsSymbol(e.op)
             /\ ~BoundLocally(e.op, e.localBindings)
             /\ NamesMacro(e.op, e.envBefore)
        /\ ~e.evaluated => e.same /\ e.envAfter = e.envBefore

\* a qualified head naming a macro is expanded although a local binding has its name
QualifiedMacroHeadWitness ==
  \E i \in Events("macroexpand1") :
    /\ log[i].evaluated
    /\ log[i].op.ns # ""
    /\ \E j \in DOMAIN log[i].localBindings :
         log[i].op.name \in DOMAIN log[i].localBindings[j].bindings
    /\ pc = "parsed"

(***************************************************************************)
(* C9.  parseSymbol answers in a fixed order: the binding of the innermost *)
(* frame that binds the name (then marked used), for an unqualified symbol *)
(* only; else the var the environment resolves; else the built-in type an  *)
(* unqualified name denotes; and strict mode raises "Unable to resolve     *)
(* symbol" exactly when all three fail.                                    *)
(***************************************************************************)
InnermostFrame(sym, localBindings) ==
  CHOOSE i \in DOMAIN localBindings :
    /\ sym.name \in DOMAIN localBindings[i].bindings
    /\ \A j \in DOMAIN localBindings :
         sym.name \in DOMAIN localBindings[j].bindings => j <= i

SymbolResolutionOrder ==
  \A i \in Events("parseSymbol") :
    LET e == log[i]
        local == BoundLocally(e.sym, e.localBindings)
        isType == e.sym.ns = "" /\ e.sym.name \in TYPES
    IN  /\ local =>
             LET f == InnermostFrame(e.sym, e.localBindings)
                 b == e.localBindings[f].bindings[e.sym.name]
             IN  /\ e.out.k = "Binding"
                 /\ e.out.binding = [name |-> b.name, index |-> b.index, frame |-> b.frame]
                 /\ e.after[f].bindings[e.sym.name].isUsed
        /\ ~local /\ e.global # <<>> => e.out.k = "VarRef" /\ e.out.vr = e.global
        /\ ~local /\ e.global = <<>> /\ isType =>
             e.out.k = "Literal" /\ e.out.obj.k = "type" /\ e.out.obj.name = e.sym.name
        /\ ~LINTER_MODE =>
             (e.err = "Unable to resolve symbol" <=> ~local /\ e.global = <<>> /\ ~isType)

\* an unqualified name that a frame binds and that is also a global var
LocalShadowsGlobalWitness ==
  \E i \in Events("parseSymbol") :
    /\ BoundLocally(log[i].sym, log[i].localBindings)
    /\ log[i].global # <<>>
    /\ log[i].out.k = "Binding"

(***************************************************************************)
(* C10.  In let and loop the i-th value is parsed with exactly the names   *)
(* at positions before i of the same binding vector in the form's frame;   *)
(* in letfn every value is parsed with all names of the vector in it.      *)
(***************************************************************************)
\* the names of the binding vector v before pair i (0-based), each with the
\* position of its last occurrence there
NamesBefore(v, i) ==
  LET names == {v.items[2 * j + 1].name : j \in 0..(i - 1)}
  IN  [n \in names |->
         CHOOSE j \in 0..(i - 1) :
           /\ v.items[2 * j + 1].name = n
           /\ \A k \in 0..(i - 1) : v.items[2 * k + 1].name = n => k <= j]

\* the symbol at pos is the value of pair i of the binding vector of the
\* let / loop / letfn form at path p, whose names are all symbols
IsBindingValue(pos, p, i) ==
  /\ pos = p \o <<2, 2 * i + 2>>
  /\ LET obj == ObjAt(form, p)
     IN  /\ HeadIs(obj, "let") \/ HeadIs(obj, "loop") \/ HeadIs(obj, "letfn")
         /\ \A j \in DOMAIN obj.items[2].items :
              j % 2 = 1 => IsSymbol(obj.items[2].items[j])

LetValuesSeeEarlierNames ==
  \A i \in Events("parseSymbol") :
    LET e == log[i]
    IN  Len(e.pos) >= 2 =>
          LET p == SubSeq(e.pos, 1, Len(e.pos) - 2)
              k == (e.pos[Len(e.pos)] - 2) \div 2
              v == ObjAt(form, p).items[2]
          IN  IsBindingValue(e.pos, p, k) =>
                LET frame == Last(e.localBindings).bindings
                    want == IF HeadIs(ObjAt(form, p), "letfn")
                            THEN NamesBefore(v, Len(v.items) \div 2)
                            ELSE NamesBefore(v, k)
                IN  /\ DOMAIN frame = DOMAIN want
                    /\ \A n \in DOMAIN want : frame[n].index = want[n]
                    /\ e.out.k = "Binding" /\ e.out.binding.frame = Last(e.localBindings).frame
                         => e.sym.name \in DOMAIN want

\* a value of a letfn that resolves to a name declared after it, and no value
\* of a let does
LetfnSeesLaterNameWitness ==
  \E i \in Events("parseSymbol") :
    /\ HeadIs(form, "letfn")
    /\ log[i].pos = <<2, 2>>
    /\ Len(form.items[2].items) = 4
    /\ log[i].out.k = "Binding"
    /\ log[i].out.binding.index = 1

(***************************************************************************)
(* C11.  TryParse returns either an Expr and no error or no Expr and an    *)
(* error, for every form.  A ParseError, EvalError or ExInfo raised while  *)
(* the form is parsed is returned as the error, and PROBLEM_COUNT is then  *)
(* one more than what parsing had printed; a panic of any other kind is    *)
(* not returned but propagates; when nothing is raised the Expr is there   *)
(* (no form is dropped silently) and PROBLEM_COUNT counts the printed      *)
(* problems only.                                                          *)
(***************************************************************************)
TryParseReturnsExprOrError ==
  pc # "read" =>
    LET e == Last(log)
    IN  /\ pc = "parsed" => \/ expr # NoExpr /\ err = ""
                            \/ expr = NoExpr /\ err # ""
        /\ e.kind \in {"ParseError", "EvalError", "ExInfo"} =>
             /\ pc = "parsed"
             /\ expr = NoExpr
             /\ err = e.msg
             /\ err # ""
             /\ PROBLEM_COUNT = e.before + e.printed + 1
        /\ e.kind \notin {"ParseError", "EvalError", "ExInfo", ""} =>
             /\ pc \in {"panicked", "crashed"}
             /\ expr = NoExpr
             /\ pc = "panicked" => err = ""
        /\ e.kind = "" =>
             /\ pc = "parsed"
             /\ e.out # NoExpr
             /\ expr = e.out
             /\ err = ""
             /\ PROBLEM_COUNT = e.before + e.printed

\* an ExInfo thrown by a macro after the linter had printed a problem
ExInfoReturnedWitness ==
  /\ pc = "parsed"
  /\ Last(log).kind = "ExInfo"
  /\ err # ""
  /\ Last(log).printed = 1
  /\ PROBLEM_COUNT = 2

(***************************************************************************)
(* C12.  Every VarRefExpr parseSymbol returns, whether the var came from   *)
(* the global resolution, from the CLJS constructor lookup or from the     *)
(* linter's fake-var interning, names a var of the environment whose       *)
(* namespace is not nil, and at that moment the var and its namespace are  *)
(* both isUsed and isGloballyUsed.                                         *)
(***************************************************************************)
VarRefNamesUsedVar ==
  \A i \in Events("parseSymbol") :
    log[i].out.k = "VarRef" =>
      /\ log[i].out.vr \in DOMAIN log[i].vars
      /\ log[i].vars[log[i].out.vr].ns # ""
      /\ log[i].vars[log[i].out.vr].ns \in DOMAIN log[i].nss
      /\ log[i].vars[log[i].out.vr].isUsed
      /\ log[i].vars[log[i].out.vr].isGloballyUsed
      /\ log[i].nss[log[i].vars[log[i].out.vr].ns].isUsed
      /\ log[i].nss[log[i].vars[log[i].out.vr].ns].isGloballyUsed

\* the linter interns a fake var for a symbol whose namespace does not exist
FakeVarOfUnknownNamespaceWitness ==
  \E i \in Events("parseSymbol") :
    /\ log[i].out.k = "VarRef"
    /\ log[i].sym.ns = "nowhere"
    /\ log[i].vars[log[i].out.vr].isFake
    /\ log[i].vars[log[i].out.vr].ns = CurrentNamespace

(***************************************************************************)
(* C13.  Binding.frame is the number of binding-introducing forms (fn,     *)
(* let, loop, letfn, catch) that surround the form introducing the         *)
(* binding: wherever an expression is parsed with bindings in the          *)
(* innermost frame, their frame is one less than the number of such forms  *)
(* whose scope holds the expression (the innermost of them introduced the  *)
(* bindings), fns with a self-name included.                               *)
(***************************************************************************)
\* the number of forms whose scope holds the position path leads to from obj:
\* let, loop and letfn from their binding vector on, catch from its body on, fn
\* in the body of an arity (inFn: obj is a child of a fn form of several arities)
RECURSIVE BindersFrom(_, _, _)
BindersFrom(obj, path, inFn) ==
  IF path = <<>> THEN 0
  ELSE LET i == Head(path)
           single == HeadIs(obj, "fn") /\ \E j \in 2..(i - 1) : IsVector(obj.items[j])
           here ==
             IF \/ (HeadIs(obj, "let") \/ HeadIs(obj, "loop") \/ HeadIs(obj, "letfn")) /\ i >= 2
                \/ HeadIs(obj, "catch") /\ i >= 4
                \/ single
                \/ inFn /\ IsSeq(obj) /\ i >= 2
             THEN 1 ELSE 0
       IN  here + BindersFrom(obj.items[i], Tail(path), HeadIs(obj, "fn") /\ i >= 2 /\ ~single)

Binders(pos) == BindersFrom(form, pos, FALSE)

BindingFrameIsBinderDepth ==
  \A i \in Events("Parse") :
    LET b == log[i].before.localBindings
    IN  b # <<>> /\ log[i].pos # NoInfo =>
          \A n \in DOMAIN Last(b).bindings :
            Last(b).bindings[n].frame = Binders(log[i].pos) - 1

(***************************************************************************)
(* C14.  No two distinct bindings of one frame have the same index, in     *)
(* the local frames (fn parameters, fn self-name, let/loop/letfn names,    *)
(* catch symbols) and in the frames of the linter bindings pushed for      *)
(* known macros alike; and in the frame addArity fills from a parameter    *)
(* list, the index of each binding is a position of its symbol in the      *)
(* list.                                                                   *)
(***************************************************************************)
DistinctIndexes(frames) ==
  \A j \in DOMAIN frames :
    \A n1, n2 \in DOMAIN frames[j].bindings :
      n1 # n2 => frames[j].bindings[n1].index # frames[j].bindings[n2].index

FrameIndexesDistinctAndPositional ==
  /\ \A i \in Events("Parse") :
       /\ DistinctIndexes(log[i].before.localBindings)
       /\ DistinctIndexes(log[i].linterBindings)
  /\ \A i \in Events("addArity") :
       \A n \in DOMAIN log[i].frame.bindings :
         /\ log[i].frame.bindings[n].index + 1 \in DOMAIN log[i].args
         /\ log[i].args[log[i].frame.bindings[n].index + 1].name = n

(***************************************************************************)
(* C15.  After a macro expansion every sub-object of the replacement that  *)
(* had no position info (a list, vector, map or set, an element of one, a  *)
(* symbol or another scalar, at any depth) has the position info of the    *)
(* macro call, every sub-object that had position info keeps it, and the   *)
(* metadata is kept.                                                       *)
(***************************************************************************)
\* out is raw with the position info of the call on every object that had none
RECURSIVE Reattached(_, _, _)
Reattached(raw, out, info) ==
  \/ raw.k = "nil" /\ out = raw
  \/ /\ raw.k # "nil"
     /\ out.k = raw.k
     /\ out.ns = raw.ns
     /\ out.name = raw.name
     /\ out.meta = raw.meta
     /\ out.pos = IF raw.pos # NoInfo THEN raw.pos ELSE info
     /\ Len(out.items) = Len(raw.items)
     /\ \A i \in DOMAIN raw.items : Reattached(raw.items[i], out.items[i], info)

ExpansionCarriesPositions ==
  \A i \in Events("macroexpand1") :
    log[i].evaluated /\ log[i].err = "" => Reattached(log[i].raw, log[i].out, log[i].pos)

(***************************************************************************)
(* C16.  A let, loop or letfn form whose second element is missing or is   *)
(* no vector, or whose binding vector has an odd number of forms, raises a *)
(* ParseError in both modes before anything else happens: parseLetLoop     *)
(* returns no expression, it has parsed nothing, the context (frames and   *)
(* loop bindings) and the environment are as they were on entry, and       *)
(* nothing was printed or generated.                                       *)
(***************************************************************************)
BadBindingsRaiseBeforeAnyPush ==
  \A i \in Events("parseLetLoop") :
    LET e == log[i]
        b == Second(e.obj)
    IN  ~IsVector(b) \/ Len(b.items) % 2 = 1 =>
          /\ e.err = e.formName \o (IF IsVector(b)
                                     THEN " requires an even number of forms in binding vector"
                                     ELSE " requires a vector for its bindings")
          /\ e.out = NoExpr
          /\ e.exit = e.entry
          /\ e.entry.events = i - 1
          /\ pc = "parsed" /\ expr = NoExpr /\ err = e.err

\* (let [x 1 y] x) inside the scope of another let, in the linter
OddBindingsInScopeWitness ==
  \E i \in Events("parseLetLoop") :
    /\ LINTER_MODE
    /\ IsVector(Second(log[i].obj))
    /\ Len(Second(log[i].obj).items) = 3
    /\ log[i].entry.ctx.localBindings # <<>>
    /\ log[i].err # ""

(***************************************************************************)
(* C17.  An if form is accepted only with 3 or 4 elements: with fewer it   *)
(* raises "Too few arguments to if", with more "Too many arguments to if". *)
(* The IfExpr of a 3-element form has a nil Literal as its negative, in    *)
(* every mode.  The "missing else branch" warnings printed for the form    *)
(* are exactly one when the form has 3 elements and LINTER_MODE and the    *)
(* ifWithoutElse toggle are both on, and none otherwise.                   *)
(***************************************************************************)
\* the warnings printed with the message at the position
Warnings(pos, msg) ==
  {j \in Events("warning") : log[j].pos = pos /\ log[j].msg = msg}

\* every element after the head is a number or the function var g
PlainArguments(obj) ==
  \A j \in 2..Len(obj.items) : obj.items[j].k = "num" \/ IsNamed(obj.items[j], "g")

IfArityAndElseWarning ==
  \A i \in Events("Parse") :
    LET e == log[i]
        n == Len(e.obj.items)
    IN  HeadIs(e.obj, "if") =>
          /\ n < 3 => e.err = "Too few arguments to if" /\ e.out = NoExpr
          /\ n > 4 => e.err = "Too many arguments to if" /\ e.out = NoExpr
          /\ n \in {3, 4} /\ PlainArguments(e.obj) => e.err = "" /\ e.out.k = "If"
          /\ n = 3 /\ e.err = "" =>
               /\ e.out.k = "If"
               /\ e.out.negative.k = "Literal"
               /\ e.out.negative.obj = NIL
          /\ Cardinality(Warnings(e.pos, "missing else branch")) =
               IF n = 3 /\ LINTER_MODE /\ WARNINGS.ifWithoutElse THEN 1 ELSE 0

\* an if without else in a branch of an if with else, the linter and the toggle on
NestedIfWithoutElseWitness ==
  \E i \in Events("Parse") :
    /\ HeadIs(log[i].obj, "if")
    /\ Len(log[i].obj.items) = 3
    /\ Len(log[i].pos) = 1
    /\ HeadIs(form, "if") /\ Len(form.items) = 4
    /\ LINTER_MODE /\ WARNINGS.ifWithoutElse
    /\ Cardinality(Warnings(log[i].pos, "missing else branch")) = 1
    /\ Cardinality(Warnings(<<>>, "missing else branch")) = 0
    /\ pc = "parsed" /\ expr.k = "If"

(***************************************************************************)
(* C18.  In linter mode, for a do form with exactly one body expression,   *)
(* the "redundant do form" warnings printed for it are exactly one when    *)
(* the form was not created by a macro and none when it was, at top level  *)
(* and inside another body alike.                                          *)
(***************************************************************************)
RedundantDoWarnedOnceUnlessMacro ==
  \A i \in Events("Parse") :
    LET e == log[i]
    IN  LINTER_MODE /\ pc = "parsed" /\ HeadIs(e.obj, "do") /\ Len(e.obj.items) = 2
        /\ e.out.k = "Do" =>
          Cardinality(Warnings(e.pos, "redundant do form")) =
            IF e.out.isCreatedByMacro THEN 0 ELSE 1

(***************************************************************************)
(* C19.  A list headed by quote, throw, var or set-macro__ with other than *)
(* two elements, by if with other than three or four, or by def with other *)
(* than two to four, raises an error and Parse returns no Expr for it; a   *)
(* two-element (quote x) returns Literal(x) and x itself is never parsed.  *)
(***************************************************************************)
FixedArity ==
  [quote |-> 2 .. 2, throw |-> 2 .. 2, var |-> 2 .. 2, if |-> 3 .. 4, def |-> 2 .. 4]
  @@ ("set-macro__" :> 2 .. 2)

WrongArity(obj) ==
  \E h \in DOMAIN FixedArity : HeadIs(obj, h) /\ Len(obj.items) \notin FixedArity[h]

WrongArityRaisesParseError ==
  \A i \in Events("Parse") :
    LET e == log[i]
    IN  /\ WrongArity(e.obj) => e.out = NoExpr /\ e.err # ""
        /\ HeadIs(e.obj, "quote") /\ Len(e.obj.items) = 2 =>
              /\ e.out = NewLiteralExpr(e.obj.items[2])
              /\ HasInfo(e.obj.items[2]) =>
                    \A j \in Events("Parse") : log[j].pos # e.obj.items[2].pos

(***************************************************************************)
(* C20.  parseDef interns the Var under the unqualified name in the        *)
(* current namespace: a name qualified with the current namespace is       *)
(* accepted, a name qualified with another namespace raises "Can't create  *)
(* defs outside of current ns" and interns nothing, a name that is no      *)
(* symbol raises an error.  In the four-element form the third element     *)
(* must be a String, else "Docstring must be a string" is raised once the  *)
(* value is parsed; the docstring is added under :doc to the metadata of   *)
(* the symbol to make the meta of the DefExpr, and the fourth element is   *)
(* the value.                                                              *)
(***************************************************************************)
\* the value Expr a Map Expr holds for a key object
HoldsEntry(m, key, value) ==
  /\ m.k = "Map"
  /\ \E i \in DOMAIN m.keys :
        /\ m.keys[i].k = "Literal" /\ m.keys[i].obj.k = key.k /\ m.keys[i].obj.name = key.name
        /\ m.values[i].k = "Literal" /\ m.values[i].obj = value

\* the Expr Parse gave for an element of the form
ParsedAs(obj) == {log[j].out : j \in {j \in Events("Parse") : log[j].obj = obj /\ log[j].err = ""}}

DefWithDocstring(e, n) ==
  IF ~IsString(Third(e.obj))
  THEN /\ e.out = NoExpr
       /\ ParsedAs(Fourth(e.obj)) # {} => e.err = "Docstring must be a string"
  ELSE e.out # NoExpr =>
         /\ e.out.value \in ParsedAs(Fourth(e.obj))
         /\ Fourth(e.obj).k = "num" => e.out.value = NewLiteralExpr(Fourth(e.obj))
         /\ HoldsEntry(e.out.meta, Kw("doc"), Third(e.obj))
         /\ n.meta.k # "nil" =>
               \A j \in DOMAIN n.meta.items :
                 j % 2 = 1 /\ n.meta.items[j].name # "doc" =>
                   HoldsEntry(e.out.meta, n.meta.items[j], n.meta.items[j + 1])

Diagnostics ==
  {i \in DOMAIN log : log[i].ev \in {"warning", "error"} /\ log[i].pos \notin {NoInfo, CoreInfo}}

\* the place p is not after the place q: p is q, or a form that holds q, or
\* they part at an element where p takes the earlier one
NotAfter(p, q) ==
  \/ p = q
  \/ \E k \in 1..Len(q) :
        /\ k <= Len(p) + 1
        /\ SubSeq(p, 1, k - 1) = SubSeq(q, 1, k - 1)
        /\ (k = Len(p) + 1 \/ p[k] < q[k])

DiagnosticsInSourceOrder ==
  LINTER_MODE =>
    \A i, j \in Diagnostics : i < j => NotAfter(log[i].pos, log[j].pos)

(***************************************************************************)
(* C22: each of WarnOnUnusedVars, WarnOnGloballyUnusedVars,                *)
(* WarnOnUnusedNamespaces and WarnOnGloballyUnusedNamespaces prints one    *)
(* warning for every qualifying var or namespace, in the order of the      *)
(* reported names, and the sequence of (position, message) pairs it prints *)
(* is the same for every order in which the map of namespaces and the map  *)
(* of vars of a namespace are ranged over, also when two namespaces each   *)
(* hold an unused private var of the same local name.                      *)
(***************************************************************************)
WarningsOf(name, nsOrder, varOrder) ==
  CASE name = "WarnOnGloballyUnusedNamespaces" ->
         GloballyUnusedNamespaces(GLOBAL_ENV, WARNINGS, nsOrder)
    [] name = "WarnOnUnusedNamespaces" -> UnusedNamespaces(GLOBAL_ENV, WARNINGS, nsOrder)
    [] name = "WarnOnGloballyUnusedVars" ->
         GloballyUnusedVars(GLOBAL_ENV, WARNINGS, nsOrder, varOrder)
    [] name = "WarnOnUnusedVars" -> UnusedVars(GLOBAL_ENV, nsOrder, varOrder)

WarnFunctions ==
  {"WarnOnGloballyUnusedNamespaces", "WarnOnUnusedNamespaces", "WarnOnGloballyUnusedVars",
   "WarnOnUnusedVars"}

WarnMessage(name) ==
  CASE name = "WarnOnGloballyUnusedNamespaces" -> "globally unused namespace "
    [] name = "WarnOnUnusedNamespaces" -> "unused namespace "
    [] name = "WarnOnGloballyUnusedVars" -> "globally unused var "
    [] name = "WarnOnUnusedVars" -> "unused var "

ReportedName(name, warning) ==
  SubSeq(warning.msg, Len(WarnMessage(name)) + 1, Len(warning.msg))

\* the vars and namespaces a function has to report, with their positions
Qualifying(name) ==
  LET e == GLOBAL_ENV
      ownVars == {key \in DOMAIN e.vars : /\ key[1] # CoreNamespace /\ e.vars[key].ns = key[1]
                                          /\ e.vars[key].info # NoInfo}
      fileNss == {n \in DOMAIN e.nss : e.nss[n].info \notin {NoInfo, CoreInfo, UserInfo}
                                       /\ ~isIgnoredUnusedNamespace(WARNINGS, n)}
  IN  CASE name = "WarnOnGloballyUnusedNamespaces" ->
             {<<e.nss[n].info, n>> : n \in {m \in fileNss : /\ ~e.nss[m].isGloballyUsed
                                                             /\ ~isEntryPointNs(WARNINGS, m)}}
        [] name = "WarnOnUnusedNamespaces" ->
             {<<e.nss[n].info, n>> : n \in {m \in fileNss : /\ ~e.nss[m].isUsed
                                                             /\ m # CurrentNamespace}}
        [] name = "WarnOnGloballyUnusedVars" ->
             {<<e.vars[key].info, e.vars[key].ns \o "/" \o e.vars[key].name>> :
                key \in {k \in ownVars : /\ ~e.vars[k].isGloballyUsed /\ ~e.vars[k].isPrivate
                                          /\ ~isRecordConstructor(e.vars[k].name)
                                          /\ ~isEntryPointVar(WARNINGS, e.vars[k])}}
        [] name = "WarnOnUnusedVars" ->
             {<<e.vars[key].info, e.vars[key].name>> :
                key \in {k \in ownVars : ~e.vars[k].isUsed /\ e.vars[k].isPrivate}}

\* the call logged at i printed what the claim says
WarnedAsClaimed(i) ==
  LET name == log[i].ev
      out == log[i].out
  IN  /\ Len(out) = Cardinality(Qualifying(name))
      /\ {<<out[j].pos, ReportedName(name, out[j])>> : j \in DOMAIN out} = Qualifying(name)
      /\ \A j, k \in DOMAIN out :
            j < k => IndexOf(ReportOrder, ReportedName(name, out[j]))
                       <= IndexOf(ReportOrder, ReportedName(name, out[k]))
      /\ \A nsOrder \in Perms(DOMAIN GLOBAL_ENV.nss), varOrder \in VarOrders(GLOBAL_ENV) :
            out = WarningsOf(name, nsOrder, varOrder)

WarningsDeterministicAndSorted ==
  \A i \in DOMAIN log : log[i].ev \in WarnFunctions => WarnedAsClaimed(i)

(***************************************************************************)
(* C23: in linter mode no condition the linter recovers from raises a      *)
(* ParseError: an unresolved symbol, a binding name or fn parameter that   *)
(* is not an unqualified symbol, a catch type that does not resolve to a   *)
(* Type.  Parse goes on and returns an Expr that uses a substitute, and    *)
(* for every such occurrence an error is printed, so PROBLEM_COUNT grows   *)
(* by at least one.                                                        *)
(***************************************************************************)
IsUnqualifiedSymbol(obj) == IsSymbol(obj) /\ obj.ns = ""

\* the form is a symbol that resolves to no var of the environment read
UnresolvedSymbolForm(f) ==
  /\ IsSymbol(f)
  /\ f.name = "u"

\* (let [n 1] 1), (loop [n 1] 1) or (letfn [n 1] 1) with a name n that is not
\* an unqualified symbol
BadBindingNameForm(f) ==
  /\ IsSeq(f) /\ Len(f.items) = 3
  /\ \E h \in {"let", "loop", "letfn"} : IsNamed(First(f), h)
  /\ IsVector(Second(f)) /\ Len(Second(f).items) = 2
  /\ ~IsUnqualifiedSymbol(First(Second(f)))
  /\ Third(f).k = "num"

\* (fn [... p ...] 1) with a parameter p that is not a symbol, and & followed
\* by at most one parameter
BadParameterForm(f) ==
  /\ IsSeq(f) /\ Len(f.items) = 3
  /\ IsNamed(First(f), "fn")
  /\ IsVector(Second(f))
  /\ \E i \in DOMAIN Second(f).items : ~IsSymbol(Second(f).items[i])
  /\ \A i \in DOMAIN Second(f).items :
        IsNamed(Second(f).items[i], "&") => Len(Second(f).items) <= i + 1
  /\ Third(f).k = "num"

\* (try 1 (catch t e 1)) with a t that is not the name of a Type
BadCatchTypeForm(f) ==
  /\ IsSeq(f) /\ Len(f.items) = 3
  /\ IsNamed(First(f), "try")
  /\ IsSeq(Third(f)) /\ Len(Third(f).items) = 4
  /\ IsNamed(First(Third(f)), "catch")
  /\ ~(IsUnqualifiedSymbol(Second(Third(f))) /\ Second(Third(f)).name \in TYPES)
  /\ IsUnqualifiedSymbol(Third(Third(f)))

RecoverableForm(f) ==
  UnresolvedSymbolForm(f) \/ BadBindingNameForm(f) \/ BadParameterForm(f) \/ BadCatchTypeForm(f)

LinterRecoversAndLogs ==
  LINTER_MODE /\ pc # "read" /\ RecoverableForm(form) =>
    /\ pc = "parsed"
    /\ err = ""
    /\ expr # NoExpr
    /\ PROBLEM_COUNT >= 1

(***************************************************************************)
(* C24: parseParams accepts a parameter vector only if it is a sequence of *)
(* symbols that may end in & followed by exactly one symbol.  & followed   *)
(* by no element or by two or more raises a ParseError in both modes; an   *)
(* element that is no symbol raises a ParseError in strict mode and is     *)
(* replaced by a generated symbol in linter mode; the list returned holds  *)
(* every symbol but & in order, and isVariadic is true iff & occurs in the *)
(* vector.  Stated of (fn v 1), whose only arity is built from v.          *)
(***************************************************************************)
IsFnOfParams(f) ==
  /\ IsSeq(f) /\ Len(f.items) = 3
  /\ IsNamed(First(f), "fn")
  /\ IsVector(Second(f))
  /\ Third(f).k = "num"

AmpAt(v) == {i \in DOMAIN v : IsNamed(v[i], SYMBOLS.amp)}

\* the elements of v but &, in order
WithoutAmp(v) == SelectSeq(v, LAMBDA o : ~IsNamed(o, SYMBOLS.amp))

\* the parameters args are the elements of v but &, a generated symbol standing
\* for every element that is no symbol
ParamsOf(args, v) ==
  /\ Len(args) = Len(WithoutAmp(v))
  /\ \A i \in DOMAIN args :
        IF IsSymbol(WithoutAmp(v)[i])
        THEN args[i].ns = WithoutAmp(v)[i].ns /\ args[i].name = WithoutAmp(v)[i].name
        ELSE LINTER_MODE /\ HasPrefix(args[i].name, "linter__")

ParamsAccepted(v) ==
  /\ err = ""
  /\ expr.k = "Fn"
  /\ IF AmpAt(v) # {}
     THEN expr.variadic # NoExpr /\ expr.arities = <<>> /\ ParamsOf(expr.variadic.args, v)
     ELSE expr.variadic = NoExpr /\ Len(expr.arities) = 1 /\ ParamsOf(expr.arities[1].args, v)

ParamsRejected == expr = NoExpr /\ err # "" /\ pc = "parsed"

ParseParamsContract ==
  pc # "read" /\ IsFnOfParams(form) =>
    LET v == Second(form).items
    IN  IF \E i \in AmpAt(v) : Len(v) # i + 1 THEN ParamsRejected
        ELSE IF ~LINTER_MODE /\ \E i \in DOMAIN v : ~IsSymbol(v[i]) THEN ParamsRejected
        ELSE ParamsAccepted(v)

(***************************************************************************)
(* C25: in linter mode, for a call with N arguments whose callable is a Fn *)
(* expression or a Var holding one (N counted as N + 2 when the Var is a   *)
(* macro), the linter selects the fixed arity with exactly that many       *)
(* parameters if there is one, otherwise the variadic arity if the count   *)
(* is at least the number of its required parameters.  It warns "Wrong     *)
(* number of args (N) passed to NAME" exactly when there is neither, with  *)
(* N the number of arguments written at the call, and the type tags are    *)
(* checked only when an arity was selected.                                *)
(***************************************************************************)
\* the Fn expression the callable of a call stands for, NoExpr for none
FnOfCallable(c) ==
  IF c.k = "Fn" THEN c
  ELSE IF c.k = "VarRef"
  THEN IF GLOBAL_ENV.vars[c.vr].Value # "nil" THEN FnExprOf(GLOBAL_ENV.vars[c.vr].Value)
       ELSE IF GLOBAL_ENV.vars[c.vr].expr.k = "Fn" THEN GLOBAL_ENV.vars[c.vr].expr
       ELSE NoExpr
  ELSE NoExpr

IsMacroCallable(c) == c.k = "VarRef" /\ GLOBAL_ENV.vars[c.vr].isMacro

\* the calls of Fn expressions and of Vars that hold one
FnCalls ==
  {i \in Events("Parse") : /\ log[i].out # NoExpr
                           /\ log[i].out.k = "Call"
                           /\ FnOfCallable(log[i].out.callable) # NoExpr}

\* the number of parameters of the arity the claim selects for count
\* arguments, -1 when it selects none
ClaimedArity(fn, count) ==
  IF \E i \in DOMAIN fn.arities : Len(fn.arities[i].args) = count THEN count
  ELSE IF fn.variadic # NoExpr /\ count >= Len(fn.variadic.args) - 1
  THEN Len(fn.variadic.args)
  ELSE -1

WrongNumberOfArgs(call) ==
  Warnings(call.pos, "Wrong number of args (" \o ToString(Len(call.args)) \o ") passed to "
                     \o CallName(call))

TypeChecks(call) == {j \in Events("checkTypes") : log[j].pos = call.pos}

ArityWarnedIffNoneSelected ==
  LINTER_MODE =>
    \A i \in FnCalls :
      LET call == log[i].out
          count == IF IsMacroCallable(call.callable) THEN Len(call.args) + 2 ELSE Len(call.args)
          claimed == ClaimedArity(FnOfCallable(call.callable), count)
      IN  /\ WrongNumberOfArgs(call) # {} <=> claimed = -1
          /\ TypeChecks(call) # {} <=> claimed # -1
          /\ \A j \in TypeChecks(call) : log[j].args = claimed
          /\ \A j \in Events("warning") :
                log[j].pos = call.pos /\ HasPrefix(log[j].msg, "Wrong number of args")
                  => j \in WrongNumberOfArgs(call)

\* h is called with four arguments and its variadic arity is selected, and mm,
\* a macro of one parameter after &form and &env, is called with two
VariadicAritySelectedWitness ==
  /\ LINTER_MODE
  /\ \E i \in FnCalls :
        /\ log[i].out.callable.k = "VarRef"
        /\ log[i].out.callable.vr = <<"user", "h">>
        /\ Len(log[i].out.args) = 4
        /\ \E j \in TypeChecks(log[i].out) : log[j].args = 5
        /\ WrongNumberOfArgs(log[i].out) = {}

(***************************************************************************)
(* C26: in linter mode a call whose callable is a map literal is warned    *)
(* "Wrong number of args" iff it has not one or two arguments, a set       *)
(* literal iff it has not one, a keyword iff it has not one or two; and a  *)
(* callable of any other kind that the rules for Fn expressions, Vars and  *)
(* arglists do not cover (a recur or throw expression, a literal that is   *)
(* not callable such as a number) is warned "NAME is not a function".  In  *)
(* strict mode neither warning is printed.                                 *)
(***************************************************************************)
HasSuffix(str, suffix) ==
  Len(str) >= Len(suffix) /\ SubSeq(str, Len(str) - Len(suffix) + 1, Len(str)) = suffix

Calls == {i \in Events("Parse") : log[i].out # NoExpr /\ log[i].out.k = "Call"}

WrongNumberWarnings(pos) ==
  {j \in Events("warning") : log[j].pos = pos /\ HasPrefix(log[j].msg, "Wrong number of args (")}

NotAFunctionWarnings(pos) ==
  {j \in Events("warning") : log[j].pos = pos /\ HasSuffix(log[j].msg, " is not a function")}

CollectionAndOtherCallablesWarned ==
  /\ ~LINTER_MODE =>
        \A j \in Events("warning") : /\ ~HasPrefix(log[j].msg, "Wrong number of args (")
                                      /\ ~HasSuffix(log[j].msg, " is not a function")
  /\ LINTER_MODE =>
        \A i \in Calls :
          LET call == log[i].out
              c == call.callable
              n == Len(call.args)
          IN  CASE c.k = "Map" -> /\ WrongNumberWarnings(call.pos) # {} <=> n \notin {1, 2}
                                  /\ NotAFunctionWarnings(call.pos) = {}
                [] c.k = "Set" -> /\ WrongNumberWarnings(call.pos) # {} <=> n # 1
                                  /\ NotAFunctionWarnings(call.pos) = {}
                [] c.k = "Literal" /\ c.obj.k = "keyword" ->
                     /\ WrongNumberWarnings(call.pos) # {} <=> n \notin {1, 2}
                     /\ NotAFunctionWarnings(call.pos) = {}
                [] c.k = "Literal" /\ c.obj.k # "keyword" ->
                     ~IsCallableObject(c.obj) /\ ~c.isSurrogate
                        => NotAFunctionWarnings(call.pos) # {}
                [] c.k \in {"Fn", "VarRef"} -> TRUE
                [] OTHER -> NotAFunctionWarnings(call.pos) # {}

(***************************************************************************)
(* C27: in linter mode, for a let, loop or letfn form whose binding vector *)
(* does not carry :skip-unused, an unused-binding warning is printed for   *)
(* exactly those bindings of the form that parseSymbol never resolves in a *)
(* later binding value or in the body (nested forms included), and whose   *)
(* name does not start with _, &form or &env and is not itself marked      *)
(* :skip-unused: one warning for each such binding, also for a binding     *)
(* that a later binding of the same name in the same vector shadows before *)
(* it is used.  With :skip-unused on the vector no unused-binding warning  *)
(* is printed for the form.  A binding resolved at least once is marked    *)
(* used and never reported.  Stated of the form read, whose binding i has  *)
(* its name at the place <<2, 2i - 1>> and its value at <<2, 2i>>.         *)
(***************************************************************************)
IsBindingForm(f) ==
  /\ IsSeq(f) /\ Len(f.items) >= 2
  /\ \E h \in {"let", "loop", "letfn"} : IsNamed(First(f), h)
  /\ IsVector(Second(f)) /\ Len(Second(f).items) % 2 = 0
  /\ \A i \in DOMAIN Second(f).items : i % 2 = 1 => IsUnqualifiedSymbol(Second(f).items[i])

BindingsOf(f) == 1..(Len(Second(f).items) \div 2)
BindingName(f, i) == Second(f).items[2 * i - 1]

\* the local binding a parseSymbol event resolved: the place of its name
ResolvedBinding(e) ==
  LET frames == log[e].localBindings
      name == log[e].sym.name
  IN  frames[FrameOf(frames, name, Len(frames))].bindings[name].sym.pos

\* the parseSymbol events that resolved binding i of the form read
ResolvedAt(i) ==
  {e \in Events("parseSymbol") : /\ log[e].out # NoExpr
                                 /\ log[e].out.k = "Binding"
                                 /\ ResolvedBinding(e) = <<2, 2 * i - 1>>}

\* the symbol of the event stands in the body or in the value of a binding
\* after binding i
InLaterValueOrBody(e, i) ==
  /\ Len(log[e].pos) >= 1
  /\ \/ log[e].pos[1] >= 3
     \/ log[e].pos[1] = 2 /\ Len(log[e].pos) >= 2 /\ log[e].pos[2] > 2 * i

UnusedBindingWarnings(f, i) ==
  {j \in Events("warning") :
     /\ log[j].pos = <<2, 2 * i - 1>>
     /\ log[j].msg \in {"unused binding: " \o BindingName(f, i).name,
                        "Unused binding: " \o BindingName(f, i).name}}

Reportable(sym) ==
  /\ ~HasPrefix(sym.name, "_")
  /\ ~HasPrefix(sym.name, "&form")
  /\ ~HasPrefix(sym.name, "&env")
  /\ ~isSkipUnused(sym)

LintedBindingForm == LINTER_MODE /\ pc = "parsed" /\ err = "" /\ IsBindingForm(form)

\* the claim as it is written: a binding is used by a later value or the body
UnusedBindingsWarnedLaterUse ==
  LintedBindingForm =>
    IF isSkipUnused(Second(form))
    THEN \A i \in BindingsOf(form) : UnusedBindingWarnings(form, i) = {}
    ELSE \A i \in BindingsOf(form) :
           /\ Cardinality(UnusedBindingWarnings(form, i)) =
                 IF /\ Reportable(BindingName(form, i))
                    /\ \A e \in ResolvedAt(i) : ~InLaterValueOrBody(e, i)
                 THEN 1 ELSE 0
           /\ ResolvedAt(i) # {} => UnusedBindingWarnings(form, i) = {}

\* the same with a binding used by every symbol that resolves to it: in a
\* letfn, also by its own value and the values of the bindings before it
UnusedBindingsWarned ==
  LintedBindingForm =>
    IF isSkipUnused(Second(form))
    THEN \A i \in BindingsOf(form) : UnusedBindingWarnings(form, i) = {}
    ELSE \A i \in BindingsOf(form) :
           Cardinality(UnusedBindingWarnings(form, i)) =
             IF Reportable(BindingName(form, i)) /\ ResolvedAt(i) = {} THEN 1 ELSE 0

\* a binding is shadowed unused by a later binding of its name, which the body
\* uses: the first is reported once and the second is not
ShadowedBindingWarnedWitness ==
  /\ LintedBindingForm
  /\ ~isSkipUnused(Second(form))
  /\ \E i, k \in BindingsOf(form) :
        /\ i < k
        /\ BindingName(form, i).name = BindingName(form, k).name
        /\ Cardinality(UnusedBindingWarnings(form, i)) = 1
        /\ ResolvedAt(i) = {}
        /\ \E e \in ResolvedAt(k) : InLaterValueOrBody(e, k)
        /\ UnusedBindingWarnings(form, k) = {}

(***************************************************************************)
(* C28: parseDef interns the Var in the current namespace before it parses *)
(* the value and before it tests the docstring, and nothing takes this     *)
(* back: a def that raises a ParseError because its value does not parse   *)
(* or because its docstring is no string leaves the Var interned, with the *)
(* expr, position info, private and dynamic flags and tagged type the Var  *)
(* had before the call (updateVar is not reached).  Only the failures of   *)
(* the arity, of a name that is no symbol and of a name of another         *)
(* namespace leave the mappings of the namespace as they were.             *)
(***************************************************************************)
\* what updateVar writes of a Var
Updated(vr) ==
  [expr |-> vr.expr, hasExpr |-> vr.hasExpr, info |-> vr.info, isPrivate |-> vr.isPrivate,
   isDynamic |-> vr.isDynamic, taggedType |-> vr.taggedType]

DefKey(obj) == <<CurrentNamespace, Second(obj).name>>

\* the def fails before it interns: arity, name that is no symbol, name of
\* another namespace
FailsBeforeIntern(obj) ==
  \/ Len(obj.items) \notin 2..4
  \/ ~IsSymbol(Second(obj))
  \/ defOutsideCurrentNs(Second(obj))

\* the value of the def did not parse, or its docstring is no string
ValueOrDocstringFails(i) ==
  LET obj == log[i].obj
      value == obj.items[Len(obj.items)]
  IN  /\ ~FailsBeforeIntern(obj)
      /\ Len(obj.items) >= 3
      /\ HasInfo(First(obj))
      /\ log[i].err # ""
      /\ \/ \E p \in Events("Parse") : p < i /\ log[p].pos = value.pos /\ log[p].err # ""
         \/ Len(obj.items) = 4 /\ ~IsString(Third(obj))

FailedDefLeavesVarInterned ==
  \A i \in Events("parseDef") :
    LET e == log[i]
        key == DefKey(e.obj)
    IN  /\ FailsBeforeIntern(e.obj) => e.err # "" /\ e.after = e.before
        /\ ValueOrDocstringFails(i) =>
              /\ e.out = NoExpr
              /\ key \in DOMAIN e.after
              /\ Updated(e.after[key]) =
                    Updated(IF key \in DOMAIN e.before THEN e.before[key]
                            ELSE Var(CurrentNamespace, key[2], FALSE, "nil"))

\* a def of x fails on its docstring after an earlier def made x private, and
\* another fails on its value where no Var x was
FailedDefWitness ==
  /\ pc = "parsed"
  /\ \E i \in Events("parseDef") :
        /\ ValueOrDocstringFails(i)
        /\ DefKey(log[i].obj) \in DOMAIN log[i].before
        /\ log[i].before[DefKey(log[i].obj)].isPrivate
        /\ log[i].before[DefKey(log[i].obj)].hasExpr
        /\ log[i].after[DefKey(log[i].obj)].isPrivate
        /\ DefKey(log[i].obj) \in DOMAIN GLOBAL_ENV.vars

====
